---- MODULE Spec2Model ----
(***************************************************************************)
(* Model of the run_stories orchestrator (src/run_stories/orchestrator.py) *)
(* and of the sprint-status queries it uses                                *)
(* (src/run_stories/sprint_status.py).                                     *)
(*                                                                         *)
(* Story keys are sequences of one-character strings, so that the regular  *)
(* expression r"\d+-\d+-" and key.split("-") are computed, not assumed.    *)
(* The status document's development_status mapping is a sequence of       *)
(* [key, status] records with distinct keys: Python dicts iterate in       *)
(* insertion order.                                                        *)
(***************************************************************************)
EXTENDS Integers, Sequences, FiniteSets, TLC

\* ------------------------------------------------------------------ bounds

\* config.max_stories ranges over 1..MaxStories
MaxStories == 2
\* config.max_review_rounds ranges over 0..MaxRounds
MaxRounds == 2
\* longest development_status mapping drawn for the pure-function checks
MaxStoreLen == 3

\* most consecutive reads of the status document that fail to parse
MaxBadReads == 2

\* most lines a session's subprocess writes to its output
MaxLines == 3

\* most session calls entered after the first one in a run of calls
MaxCalls == 2

\* most deliveries of SIGINT/SIGTERM to the runner during one session call
MaxInterrupts == 1

\* most tokens (tags, characters) of a text handed to the marker scan
MaxTextLen == 4

\* most content blocks of a record handed to parse_line
MaxBlocks == 2

\* ------------------------------------------------------- program constants

\* run_claude_session's default for timeout_minutes
DefaultTimeoutMinutes == 30

\* ------------------------------------------------------------- characters

Digits == {"0", "1", "2", "3", "4", "5", "6", "7", "8", "9"}

RECURSIVE DigitRun(_, _)
\* number of consecutive digit characters of s starting at position p (\d+ is greedy)
DigitRun(s, p) ==
    IF p <= Len(s) /\ s[p] \in Digits THEN 1 + DigitRun(s, p + 1) ELSE 0

\* re.match(r"\d+-\d+-", key): anchored at the start, anything may follow
StoryKeyMatch(key) ==
    LET a == DigitRun(key, 1)
        b == DigitRun(key, a + 2)
    IN  /\ a >= 1
        /\ a + 1 <= Len(key)
        /\ key[a + 1] = "-"
        /\ b >= 1
        /\ a + b + 2 <= Len(key)
        /\ key[a + b + 2] = "-"

RECURSIVE UpToDash(_, _)
\* the characters of s from position p up to (not including) the next "-"
UpToDash(s, p) ==
    IF p > Len(s) \/ s[p] = "-" THEN <<>> ELSE <<s[p]>> \o UpToDash(s, p + 1)

\* number of "-" separated parts is at least 2 iff the key holds a "-"
HasDash(key) == \E p \in 1..Len(key) : key[p] = "-"

\* story_id_from_key: parts = key.split("-"); parts[0] + "." + parts[1], or key itself
story_id_from_key(key) ==
    IF HasDash(key)
    THEN LET p0 == UpToDash(key, 1)
             p1 == UpToDash(key, Len(p0) + 2)
         IN  p0 \o <<".">> \o p1
    ELSE key

DigitVal(c) ==
    CASE c = "0" -> 0 [] c = "1" -> 1 [] c = "2" -> 2 [] c = "3" -> 3 [] c = "4" -> 4
      [] c = "5" -> 5 [] c = "6" -> 6 [] c = "7" -> 7 [] c = "8" -> 8 [] OTHER -> 9

RECURSIVE ToInt(_)
\* int(part) for a non-empty run of digits
ToInt(ds) ==
    IF ds = <<>> THEN 0 ELSE 10 * ToInt(SubSeq(ds, 1, Len(ds) - 1)) + DigitVal(ds[Len(ds)])

AllDigits(ds) == ds # <<>> /\ \A p \in 1..Len(ds) : ds[p] \in Digits

\* find_done_stories._sort_key: (int(parts[0]), int(parts[1])), (0, 0) on ValueError/IndexError
SortKey(key) ==
    LET p0 == UpToDash(key, 1)
        p1 == UpToDash(key, Len(p0) + 2)
    IN  IF HasDash(key) /\ AllDigits(p0) /\ AllDigits(p1)
        THEN <<ToInt(p0), ToInt(p1)>>
        ELSE <<0, 0>>

\* tuple comparison a > b
PairGreater(a, b) == a[1] > b[1] \/ (a[1] = b[1] /\ a[2] > b[2])

\* ------------------------------------------------------------ sprint_status

Tiers == <<"in-progress", "review", "ready-for-dev", "backlog">>

\* get_story_status: the key's status, "unknown" when the key is absent
get_story_status(data, key) ==
    IF \E j \in 1..Len(data) : data[j].key = key
    THEN data[CHOOSE j \in 1..Len(data) : data[j].key = key].status
    ELSE "unknown"

\* first index of data (iteration order) holding a story key with status target, 0 if none
FirstWithStatus(data, target) ==
    LET hits == {j \in 1..Len(data) : StoryKeyMatch(data[j].key) /\ data[j].status = target}
    IN  IF hits = {} THEN 0 ELSE CHOOSE j \in hits : \A k \in hits : j <= k

RECURSIVE ScanTiers(_, _)
\* the outer loop over target_status, from tier t on
ScanTiers(data, t) ==
    IF t > Len(Tiers) THEN <<>>
    ELSE LET j == FirstWithStatus(data, Tiers[t])
         IN  IF j # 0 THEN <<data[j].key, Tiers[t]>> ELSE ScanTiers(data, t + 1)

\* variant: the tiers are scanned from the lowest priority up
next_actionable_story_reversed(data) ==
    LET rev == [t \in 1..Len(Tiers) |-> Tiers[Len(Tiers) + 1 - t]]
        hit == {t \in 1..Len(rev) : FirstWithStatus(data, rev[t]) # 0}
    IN  IF hit = {} THEN <<>>
        ELSE LET t == CHOOSE x \in hit : \A y \in hit : x <= y
             IN  <<data[FirstWithStatus(data, rev[t])].key, rev[t]>>

\* variant: a done story is returned when no tier has one
next_actionable_story_orDone(data) ==
    LET j == FirstWithStatus(data, "done")
    IN  IF ScanTiers(data, 1) # <<>> THEN ScanTiers(data, 1)
        ELSE IF j # 0 THEN <<data[j].key, "done">> ELSE <<>>

\* next_actionable_story: <<key, status>>, or <<>> for None
next_actionable_story(data) == ScanTiers(data, 1)

RECURSIVE SortDesc(_)
\* list.sort(key=_sort_key, reverse=True): stable, greatest (epic, story) first
SortDesc(keys) ==
    IF keys = <<>> THEN <<>>
    ELSE LET best == CHOOSE j \in 1..Len(keys) :
                        /\ \A k \in 1..Len(keys) : ~PairGreater(SortKey(keys[k]), SortKey(keys[j]))
                        /\ \A k \in 1..(j - 1) : SortKey(keys[k]) # SortKey(keys[j])
             rest == [k \in 1..(Len(keys) - 1) |-> IF k < best THEN keys[k] ELSE keys[k + 1]]
         IN  <<keys[best]>> \o SortDesc(rest)

RECURSIVE DoneKeys(_, _)
DoneKeys(data, j) ==
    IF j > Len(data) THEN <<>>
    ELSE (IF StoryKeyMatch(data[j].key) /\ data[j].status = "done"
          THEN <<data[j].key>> ELSE <<>>) \o DoneKeys(data, j + 1)

\* variant: the done keys in document order
find_done_stories_unsorted(data) == DoneKeys(data, 1)

\* find_done_stories: the done story keys, most recent (epic, story) first
find_done_stories(data) == SortDesc(DoneKeys(data, 1))

\* ------------------------------------------------------------------- data

EpicKey == <<"e", "p", "i", "c", "-", "1">>
Key11 == <<"1", "-", "1", "-", "a">>
Key12 == <<"1", "-", "2", "-", "b">>

\* the status vocabulary of the status document
Statuses == {"backlog", "ready-for-dev", "in-progress", "review", "done"}

\* the status documents a run may start from: one epic key and two story keys
RunStores ==
    {<<[key |-> EpicKey, status |-> "in-progress"],
       [key |-> Key11, status |-> s1],
       [key |-> Key12, status |-> s2]>> : s1 \in Statuses, s2 \in Statuses}

\* markers_detected lists a session may return (MarkerType values)
MarkerLists == {<<>>, <<"DEV_STORY_COMPLETE">>, <<"DEV_STORY_COMPLETE", "HALT">>}

\* StepResult of run_claude_session, as far as run_stories reads it
SessionResults == [success : BOOLEAN, markers_detected : MarkerLists]

NoResult == [kind |-> "NONE", success |-> FALSE, markers_detected |-> <<>>]

\* SessionConfig fields read by run_stories
Configs ==
    [max_stories : 1..MaxStories, max_review_rounds : 0..MaxRounds, dry_run : BOOLEAN,
     test_cmd : {""}, session_timeout_minutes : {DefaultTimeoutMinutes}]

\* configurations that set a verification command (the shell's true always exits 0,
\* false never does) and a shorter session timeout
TunedConfigs ==
    [max_stories : {1}, max_review_rounds : 1..MaxRounds, dry_run : {FALSE},
     test_cmd : {"true", "false"}, session_timeout_minutes : {10}]

\* the external subprocess rewrites one key's status in the document
SetStatus(data, key, s) ==
    [j \in 1..Len(data) |-> IF data[j].key = key THEN [data[j] EXCEPT !.status = s] ELSE data[j]]

VARIABLES
    config,             \* SessionConfig
    dev_status,         \* development_status of sprint-status.yaml
    git_log,            \* story ids X such that git log --grep=story-X finds a commit
    pc,                 \* position in run_stories
    i,                  \* main loop counter
    result,             \* next_actionable_story's return value
    story_file_exists,  \* story_file.exists() as observed for the selected story
    resume_step,        \* StepKind the story is resumed at
    round_num,          \* review round
    story_done,         \* set after a Review that left the status "done"
    story_count,        \* completed tally
    steps,              \* kinds of story_state.step_results, in order
    last_result,        \* the last StepResult appended to story_state.step_results
    counted,            \* one record per unit added to the tally by the commit step
    recovered,          \* keys a recovery commit was run for
    return_value,       \* what run_stories returned, -1 while running
    git_dirty,          \* what _check_git_dirty returned to the recovery pass
    launch_timeout,     \* timeout_minutes the last session ran with, 0 before any session
    launch_extra,       \* extra_prompt of the last session: "", "None" or "STORY_PATH"
    claude_found,       \* shutil.which("claude") finds the binary
    files_found,        \* the three prompt files and the status document exist
    last_notice,        \* the last TextEvent run_stories handed to the tui
    summaries           \* "Session Complete" notices emitted

\* what run_stories adds to the presentation and to a session's arguments
outvars == <<launch_extra, claude_found, files_found, last_notice, summaries>>

\* state of one status-document read
VARIABLES
    bad_reads,          \* how many of the next reads of the file fail to parse
    read_attempts,      \* load_status calls made for the read
    read_state          \* "pending", "ok" or "raised"

loadvars == <<bad_reads, read_attempts, read_state>>

\* state of one call of the session supervisor (claude_session.py)
VARIABLES
    s_call,             \* "claude" for run_claude_session, "commit" for run_commit_session
    s_pc,               \* position in the call
    timeout_minutes,    \* run_claude_session's parameter
    stream,             \* lines the subprocess wrote that were not read yet
    log_lines,          \* lines written to the log file
    delivered,          \* events handed to tui.handle_event
    markers,            \* marker events collected
    result_event,       \* the retained ResultEvent
    proc,               \* the call's current subprocess: "none", "running", "exited"
    returncode,         \* its exit status once exited
    launched,           \* programs the call started, in order
    active_process,     \* the module-level _active_process: "None" or "proc"
    session_active,     \* tui.activity_log's session-active flag
    timed_out,
    exit_code,
    signals,            \* signals sent to the subprocess, in order
    interrupts,         \* SIGINT/SIGTERM deliveries to the runner so far
    commit_msg,
    s_result,           \* the StepResult returned
    pending,            \* events of the line being processed that were not dispatched yet
    stdout,             \* what the message generation printed
    live,               \* subprocesses the runner started that have not exited
    calls               \* session calls that returned before this one

sessvars == <<s_call, s_pc, timeout_minutes, stream, log_lines, delivered, markers,
              result_event, proc, returncode, launched, active_process, session_active,
              timed_out, exit_code, signals, interrupts, commit_msg, s_result, pending,
              stdout, live, calls>>

vars == <<config, dev_status, git_log, pc, i, result, story_file_exists, resume_step,
          round_num, story_done, story_count, steps, last_result, counted, recovered,
          return_value, git_dirty, launch_timeout, outvars, loadvars, sessvars>>

story_key == result[1]
story_status == result[2]

\* ------------------------------------------------------- notices

Notice(kind, count, step) == [kind |-> kind, count |-> count, step |-> step]

NoNotice == Notice("none", 0, "")

\* nothing was shown and no session was launched; preflight would pass
NoOutput ==
    /\ launch_extra = ""
    /\ claude_found = TRUE
    /\ files_found = TRUE
    /\ last_notice = NoNotice
    /\ summaries = 0

\* ------------------------------------------------------- session records

NoResultEvent ==
    [present |-> FALSE, is_error |-> FALSE, num_turns |-> 0, duration_ms |-> 0,
     has_cost |-> FALSE]

NoStepResult ==
    [success |-> FALSE, duration_ms |-> 0, num_turns |-> 0, has_cost |-> FALSE,
     markers_detected |-> <<>>]

\* no session call is in progress: _active_process is None
NoSession ==
    /\ s_call = "none"
    /\ s_pc = "idle"
    /\ timeout_minutes = DefaultTimeoutMinutes
    /\ stream = <<>>
    /\ log_lines = <<>>
    /\ delivered = <<>>
    /\ markers = <<>>
    /\ result_event = NoResultEvent
    /\ proc = "none"
    /\ returncode = 0
    /\ launched = <<>>
    /\ active_process = "None"
    /\ session_active = FALSE
    /\ timed_out = FALSE
    /\ exit_code = 0
    /\ signals = <<>>
    /\ interrupts = 0
    /\ commit_msg = ""
    /\ s_result = NoStepResult
    /\ pending = <<>>
    /\ stdout = ""
    /\ live = 0
    /\ calls = 0

\* ---------------------------------------------------------------- git, commit

\* _check_story_committed: git log --grep=story-<id> printed something
check_story_committed(log, key) == story_id_from_key(key) \in log

\* what message generation yields: it fails (fallback template), or Claude's text
\* either names story-<id> or does not
MessageOutcomes == {"fallback", "names-story", "omits-story"}

\* run_commit_session: success reflects git commit's exit status alone
commit_success(rc) == rc = 0

\* the log after run_commit_session: a successful commit whose message names the story
log_after_commit(log, key, msg, rc) ==
    IF commit_success(rc) /\ msg # "omits-story"
    THEN log \cup {story_id_from_key(key)}
    ELSE log

\* ------------------------------------------------------------ run_stories

\* _STATUS_TO_STEP.get(story_status, StepKind.CS)
\* variant: a unit in review resumes at Develop
StatusToStep_reviewAsDevelop(st) ==
    CASE st \in {"in-progress", "ready-for-dev", "review"} -> "DS"
      [] OTHER -> "CS"

StatusToStep(st) ==
    CASE st = "in-progress" -> "DS"
      [] st = "ready-for-dev" -> "DS"
      [] st = "review" -> "CR"
      [] OTHER -> "CS"

\* variant: the resume step ignores the story file
ResumeStep_noGuard(st, file_exists) == StatusToStep(st)

\* the story file existence guard for a DS/CR resume
ResumeStep(st, file_exists) ==
    IF StatusToStep(st) \in {"DS", "CR"} /\ ~file_exists THEN "CS" ELSE StatusToStep(st)

\* where the review loop starts: range(1, max_review_rounds + 1) may be empty
LoopEntry(cfg, resume) ==
    IF cfg.max_review_rounds < 1 THEN "summary"
    ELSE IF resume = "CR" THEN "cr" ELSE "ds"

\* variant: only the first marker of the list is looked at
HasHalt_first(ms) == Len(ms) >= 1 /\ ms[1] = "HALT"

\* any(m.marker_type == MarkerType.HALT for m in markers_detected)
HasHalt(ms) == \E m \in 1..Len(ms) : ms[m] = "HALT"

Init ==
    /\ config \in Configs
    /\ dev_status \in RunStores
    /\ git_log \in SUBSET {story_id_from_key(Key11), story_id_from_key(Key12)}
    /\ pc = "start"
    /\ i = 1
    /\ result = <<>>
    /\ story_file_exists = FALSE
    /\ resume_step = "CS"
    /\ round_num = 1
    /\ story_done = FALSE
    /\ story_count = 0
    /\ steps = <<>>
    /\ last_result = NoResult
    /\ counted = <<>>
    /\ recovered = <<>>
    /\ return_value = -1
    /\ git_dirty = FALSE
    /\ launch_timeout = 0
    /\ launch_extra = ""
    /\ claude_found \in BOOLEAN
    /\ files_found \in BOOLEAN
    /\ last_notice = NoNotice
    /\ summaries = 0
    /\ bad_reads = 0
    /\ read_attempts = 0
    /\ read_state = "ok"
    /\ NoSession

\* variant: only the files are checked
PreflightPasses_filesOnly(claude, files) == files

\* both preflight checks pass
PreflightPasses(claude, files) == claude /\ files

\* preflight: claude on PATH, the three prompt files and the status document exist
Preflight ==
    /\ pc = "start"
    /\ IF PreflightPasses(claude_found, files_found)
       THEN /\ pc' = "recovery"
            /\ return_value' = return_value
            /\ last_notice' = last_notice
       ELSE /\ pc' = "returned"
            /\ return_value' = 0
            /\ last_notice' = Notice("error", 0, "")
    /\ UNCHANGED <<config, dev_status, git_log, i, result, story_file_exists, resume_step,
                   round_num, story_done, story_count, steps, last_result, counted,
                   recovered>>
    /\ UNCHANGED <<git_dirty, launch_timeout, loadvars, sessvars>>
    /\ UNCHANGED <<launch_extra, claude_found, files_found, summaries>>

\* timeout_minutes of a session launched by run_stories: the argument is not passed,
\* so run_claude_session's default applies
SessionTimeoutArg(cfg) == DefaultTimeoutMinutes

\* variant: the story path is passed from the second round on only
DevExtraPrompt_roundOnly(round, resume) == IF round > 1 THEN "STORY_PATH" ELSE "None"

\* extra_prompt of a Develop session: the story path in a later round or for a unit
\* resumed at DS or CR
DevExtraPrompt(round, resume) ==
    IF round > 1 \/ resume \in {"DS", "CR"} THEN "STORY_PATH" ELSE "None"

\* variant: only a failed Create session stops the unit
CreateAborts_failureOnly(r, st) == ~r.success

\* Create: the session failed, or the status read after it is not "ready-for-dev"
CreateAborts(r, st) == ~r.success \/ st # "ready-for-dev"

\* variant: only a HALT marker stops the unit after Develop
DevAborts_haltOnly(r) == HasHalt(r.markers_detected)

\* Develop: the session failed, or its result carries a HALT marker
DevAborts(r) == ~r.success \/ HasHalt(r.markers_detected)

\* variant: a successful Review session counts as an approval
ReviewApproved_bySuccess(r, st) == r.success

\* variant: a Review left at "review" counts as an approval too
ReviewApproved_lenient(r, st) == st \in {"done", "review"}

\* Review: the status read after the session is "done" (cr_result is not consulted)
ReviewApproved(r, st) == st = "done"

\* variant: one round too many
RoundsRemain_offByOne(cfg, round) == round <= cfg.max_review_rounds

\* another round follows: round_num + 1 is still in range(1, max_review_rounds + 1)
RoundsRemain(cfg, round) == round < cfg.max_review_rounds

\* commit-gap recovery, the condition of the if: _check_git_dirty is awaited only
\* when some story is done
CheckDirty ==
    /\ pc = "recovery"
    /\ \E dirty \in BOOLEAN :
          git_dirty' = (find_done_stories(dev_status) # <<>> /\ dirty)
    /\ pc' = "recovering"
    /\ UNCHANGED <<config, dev_status, git_log, i, result, story_file_exists, resume_step,
                   round_num, story_done, story_count, steps, last_result, counted,
                   recovered, return_value>>
    /\ UNCHANGED <<launch_timeout, loadvars, sessvars>>
    /\ UNCHANGED outvars

\* variant: a recovery commit is added to the tally
Recovery_counted ==
    /\ pc = "recovering"
    /\ \E msg \in MessageOutcomes, rc \in {0, 1} :
          LET done_keys == find_done_stories(dev_status)
              gaps == {j \in 1..Len(done_keys) : ~check_story_committed(git_log, done_keys[j])}
              runs == done_keys # <<>> /\ git_dirty /\ gaps # {}
              dk == done_keys[CHOOSE j \in gaps : \A k \in gaps : j <= k]
          IN  /\ git_log' = IF runs THEN log_after_commit(git_log, dk, msg, rc) ELSE git_log
              /\ recovered' = IF runs THEN Append(recovered, dk) ELSE recovered
              /\ last_notice' = IF runs THEN Notice("commit", 0, "") ELSE last_notice
    /\ pc' = "select"
    /\ story_count' = IF recovered' # recovered THEN story_count + 1 ELSE story_count
    /\ UNCHANGED <<config, dev_status, i, result, story_file_exists, resume_step, round_num,
                   story_done, steps, last_result, counted, return_value>>
    /\ git_dirty' = FALSE
    /\ UNCHANGED <<launch_timeout, loadvars, sessvars>>
    /\ UNCHANGED <<launch_extra, claude_found, files_found, summaries>>

\* the body of the if: the first done key, most recent first, that has no commit gets
\* a commit session, then the loop breaks
Recovery ==
    /\ pc = "recovering"
    /\ \E msg \in MessageOutcomes, rc \in {0, 1} :
          LET done_keys == find_done_stories(dev_status)
              gaps == {j \in 1..Len(done_keys) : ~check_story_committed(git_log, done_keys[j])}
              runs == done_keys # <<>> /\ git_dirty /\ gaps # {}
              dk == done_keys[CHOOSE j \in gaps : \A k \in gaps : j <= k]
          IN  /\ git_log' = IF runs THEN log_after_commit(git_log, dk, msg, rc) ELSE git_log
              /\ recovered' = IF runs THEN Append(recovered, dk) ELSE recovered
              /\ last_notice' = IF runs THEN Notice("commit", 0, "") ELSE last_notice
    /\ pc' = "select"
    /\ UNCHANGED <<config, dev_status, i, result, story_file_exists, resume_step, round_num,
                   story_done, story_count, steps, last_result, counted, return_value>>
    /\ git_dirty' = FALSE
    /\ UNCHANGED <<launch_timeout, loadvars, sessvars>>
    /\ UNCHANGED <<launch_extra, claude_found, files_found, summaries>>

\* outcomes of story_file.exists(): the call is made only for a DS or CR resume
\* (the and short-circuits), story_file_exists stays FALSE when it is not made
StoryFileChecks(st) == IF StatusToStep(st) \in {"DS", "CR"} THEN BOOLEAN ELSE {FALSE}

\* loop head: the loop is exhausted, or no story is actionable, or a story is picked
SelectStory ==
    /\ pc = "select"
    /\ IF i > config.max_stories
       THEN /\ pc' = "summary"
            /\ UNCHANGED <<i, result, story_file_exists, resume_step, round_num, story_done,
                           story_count, steps, last_result, last_notice>>
       ELSE LET r == next_actionable_story(dev_status)
            IN  IF r = <<>>
                THEN /\ result' = r
                     /\ pc' = "summary"
                     /\ last_notice' = Notice("no-stories", 0, "")
                     /\ UNCHANGED <<i, story_file_exists, resume_step, round_num, story_done,
                                    story_count, steps, last_result>>
                ELSE \E file_exists \in StoryFileChecks(r[2]) :
                        LET resume == ResumeStep(r[2], file_exists)
                            entry == IF resume = "CS" THEN "cs" ELSE LoopEntry(config, resume)
                        IN  /\ result' = r
                            /\ story_file_exists' = file_exists
                            /\ resume_step' = resume
                            /\ steps' = <<>>
                            /\ last_result' = NoResult
                            /\ round_num' = 1
                            /\ last_notice' = IF config.dry_run
                                               THEN Notice("dry-run", 0, resume)
                                               ELSE Notice("story", 0, "")
                            /\ IF config.dry_run
                               THEN /\ story_count' = story_count + 1
                                    /\ i' = i + 1
                                    /\ pc' = "select"
                                    /\ story_done' = story_done
                               ELSE /\ story_count' = story_count
                                    /\ i' = i
                                    /\ pc' = entry
                                    /\ story_done' = IF entry = "cs" THEN story_done ELSE FALSE
    /\ UNCHANGED <<config, dev_status, git_log, counted, recovered, return_value>>
    /\ UNCHANGED <<git_dirty, launch_timeout, loadvars, sessvars>>
    /\ UNCHANGED <<launch_extra, claude_found, files_found, summaries>>

\* Step 1: the Create session, then the checks on its result and on the status
RunCreate ==
    /\ pc = "cs"
    /\ \E r \in SessionResults, s \in Statuses :
          LET data == SetStatus(dev_status, story_key, s)
              aborts == CreateAborts(r, get_story_status(data, story_key))
          IN  /\ dev_status' = data
              /\ last_result' = [kind |-> "CS", success |-> r.success,
                                 markers_detected |-> r.markers_detected]
              /\ pc' = IF aborts THEN "summary" ELSE LoopEntry(config, resume_step)
              /\ story_done' = IF aborts THEN story_done ELSE FALSE
    /\ steps' = Append(steps, "CS")
    /\ UNCHANGED <<config, git_log, i, result, story_file_exists, resume_step, round_num,
                   story_count, counted, recovered, return_value>>
    /\ UNCHANGED <<git_dirty, loadvars, sessvars>>
    /\ launch_timeout' = SessionTimeoutArg(config)
    /\ launch_extra' = "None"
    /\ last_notice' = Notice("step", 0, "CS")
    /\ UNCHANGED <<claude_found, files_found, summaries>>

\* Step 2: the Develop session of a round, then the checks on its result
RunDevelop ==
    /\ pc = "ds"
    /\ \E r \in SessionResults, s \in Statuses :
          /\ dev_status' = SetStatus(dev_status, story_key, s)
          /\ last_result' = [kind |-> "DS", success |-> r.success,
                             markers_detected |-> r.markers_detected]
          /\ pc' = IF DevAborts(r) THEN "summary" ELSE "cr"
    /\ steps' = Append(steps, "DS")
    /\ UNCHANGED <<config, git_log, i, result, story_file_exists, resume_step, round_num,
                   story_done, story_count, counted, recovered, return_value>>
    /\ UNCHANGED <<git_dirty, loadvars, sessvars>>
    /\ launch_timeout' = SessionTimeoutArg(config)
    /\ launch_extra' = DevExtraPrompt(round_num, resume_step)
    /\ last_notice' = Notice("step", 0, "DS")
    /\ UNCHANGED <<claude_found, files_found, summaries>>

\* Step 3: the Review session of a round, then the status check that ends or repeats the round
RunReview ==
    /\ pc = "cr"
    /\ \E r \in SessionResults, s \in Statuses :
          LET data == SetStatus(dev_status, story_key, s)
              approved == ReviewApproved(r, get_story_status(data, story_key))
              again == ~approved /\ RoundsRemain(config, round_num)
          IN  /\ dev_status' = data
              /\ last_result' = [kind |-> "CR", success |-> r.success,
                                 markers_detected |-> r.markers_detected]
              /\ story_done' = approved
              /\ round_num' = IF again THEN round_num + 1 ELSE round_num
              /\ pc' = IF approved THEN "commit" ELSE IF again THEN "ds" ELSE "summary"
    /\ steps' = Append(steps, "CR")
    /\ UNCHANGED <<config, git_log, i, result, story_file_exists, resume_step, story_count,
                   counted, recovered, return_value>>
    /\ UNCHANGED <<git_dirty, loadvars, sessvars>>
    /\ launch_timeout' = SessionTimeoutArg(config)
    /\ launch_extra' = "STORY_PATH"
    /\ last_notice' = Notice("step", 0, "CR")
    /\ UNCHANGED <<claude_found, files_found, summaries>>

\* Step 4: the commit session; the unit is then added to the tally
RunCommit ==
    /\ pc = "commit"
    /\ \E msg \in MessageOutcomes, rc \in {0, 1} :
          LET log == log_after_commit(git_log, story_key, msg, rc)
          IN  /\ git_log' = log
              /\ last_result' = [kind |-> "COMMIT", success |-> commit_success(rc),
                                 markers_detected |-> <<>>]
              /\ counted' = Append(counted, [key |-> story_key,
                                             commit_success |-> commit_success(rc),
                                             in_git_log |-> check_story_committed(log, story_key)])
    /\ steps' = Append(steps, "COMMIT")
    /\ story_count' = story_count + 1
    /\ i' = i + 1
    /\ pc' = "select"
    /\ UNCHANGED <<config, dev_status, result, story_file_exists, resume_step, round_num,
                   story_done, recovered, return_value>>
    /\ UNCHANGED <<git_dirty, launch_timeout, loadvars, sessvars>>
    /\ last_notice' = Notice("commit", 0, "")
    /\ UNCHANGED <<launch_extra, claude_found, files_found, summaries>>

\* variant: the run returns without the summary
Summary_silent ==
    /\ pc = "summary"
    /\ pc' = "returned"
    /\ return_value' = story_count
    /\ UNCHANGED <<config, dev_status, git_log, i, result, story_file_exists, resume_step,
                   round_num, story_done, story_count, steps, last_result, counted, recovered>>
    /\ UNCHANGED <<git_dirty, launch_timeout, loadvars, sessvars>>
    /\ UNCHANGED outvars

\* the session summary and the return
Summary ==
    /\ pc = "summary"
    /\ pc' = "returned"
    /\ return_value' = story_count
    /\ UNCHANGED <<config, dev_status, git_log, i, result, story_file_exists, resume_step,
                   round_num, story_done, story_count, steps, last_result, counted, recovered>>
    /\ UNCHANGED <<git_dirty, launch_timeout, loadvars, sessvars>>
    /\ last_notice' = Notice("summary", story_count, "")
    /\ summaries' = summaries + 1
    /\ UNCHANGED <<launch_extra, claude_found, files_found>>

Next ==
    \/ Preflight
    \/ CheckDirty
    \/ Recovery
    \/ SelectStory
    \/ RunCreate
    \/ RunDevelop
    \/ RunReview
    \/ RunCommit
    \/ Summary

Spec == Init /\ [][Next]_vars

\* the same run under a configuration with a verification command and a timeout set
InitTuned ==
    /\ config \in TunedConfigs
    /\ dev_status \in RunStores
    /\ git_log = {}
    /\ pc = "start"
    /\ i = 1
    /\ result = <<>>
    /\ story_file_exists = FALSE
    /\ resume_step = "CS"
    /\ round_num = 1
    /\ story_done = FALSE
    /\ story_count = 0
    /\ steps = <<>>
    /\ last_result = NoResult
    /\ counted = <<>>
    /\ recovered = <<>>
    /\ return_value = -1
    /\ git_dirty = FALSE
    /\ launch_timeout = 0
    /\ launch_extra = ""
    /\ claude_found \in BOOLEAN
    /\ files_found \in BOOLEAN
    /\ last_notice = NoNotice
    /\ summaries = 0
    /\ bad_reads = 0
    /\ read_attempts = 0
    /\ read_state = "ok"
    /\ NoSession

SpecTuned == InitTuned /\ [][Next]_vars

\* ------------------------------------------- next_actionable_story alone

KeyNoSlug == <<"1", "-", "1">>
Key123 == <<"1", "2", "-", "3", "-", "c">>

\* keys of the documents next_actionable_story is applied to
NasKeys == {EpicKey, Key11, Key12, KeyNoSlug, Key123}

NasEntries == [key : NasKeys, status : Statuses]

\* every mapping of at most MaxStoreLen entries with distinct keys
NasStores ==
    UNION {{data \in [1..n -> NasEntries] :
               \A j, k \in 1..n : j # k => data[j].key # data[k].key} : n \in 0..MaxStoreLen}

InitNAS ==
    /\ config = [max_stories |-> 1, max_review_rounds |-> 1, dry_run |-> FALSE,
                 test_cmd |-> "", session_timeout_minutes |-> DefaultTimeoutMinutes]
    /\ dev_status \in NasStores
    /\ git_log = {}
    /\ pc = "nas"
    /\ i = 1
    /\ result = <<>>
    /\ story_file_exists = FALSE
    /\ resume_step = "CS"
    /\ round_num = 1
    /\ story_done = FALSE
    /\ story_count = 0
    /\ steps = <<>>
    /\ last_result = NoResult
    /\ counted = <<>>
    /\ recovered = <<>>
    /\ return_value = -1
    /\ git_dirty = FALSE
    /\ launch_timeout = 0
    /\ NoOutput
    /\ bad_reads = 0
    /\ read_attempts = 0
    /\ read_state = "ok"
    /\ NoSession

\* the query is applied to the status document drawn at the start
ApplyNAS ==
    /\ pc = "nas"
    /\ result' = next_actionable_story(dev_status)
    /\ pc' = "nas_done"
    /\ UNCHANGED <<config, dev_status, git_log, i, story_file_exists, resume_step, round_num,
                   story_done, story_count, steps, last_result, counted, recovered,
                   return_value>>
    /\ UNCHANGED <<git_dirty, launch_timeout, loadvars, sessvars>>
    /\ UNCHANGED outvars

NextNAS == ApplyNAS

SpecNAS == InitNAS /\ [][NextNAS]_vars

\* --------------------------------------------------- one status read

\* run_stories reads the status document while a session may be rewriting it
InitLoad ==
    /\ config = [max_stories |-> 1, max_review_rounds |-> 1, dry_run |-> FALSE,
                 test_cmd |-> "", session_timeout_minutes |-> DefaultTimeoutMinutes]
    /\ dev_status \in RunStores
    /\ git_log = {}
    /\ pc = "load"
    /\ i = 1
    /\ result = <<>>
    /\ story_file_exists = FALSE
    /\ resume_step = "CS"
    /\ round_num = 1
    /\ story_done = FALSE
    /\ story_count = 0
    /\ steps = <<>>
    /\ last_result = NoResult
    /\ counted = <<>>
    /\ recovered = <<>>
    /\ return_value = -1
    /\ git_dirty = FALSE
    /\ launch_timeout = 0
    /\ NoOutput
    /\ bad_reads \in 0..MaxBadReads
    /\ read_attempts = 0
    /\ read_state = "pending"
    /\ NoSession

\* status_data = load_status(config.sprint_status): one call, yaml.safe_load's error
\* propagates out of run_stories
LoadStatus ==
    /\ pc = "load"
    /\ read_attempts' = 1
    /\ IF bad_reads > 0
       THEN /\ bad_reads' = bad_reads - 1
            /\ read_state' = "raised"
            /\ pc' = "raised"
            /\ result' = result
       ELSE /\ bad_reads' = bad_reads
            /\ read_state' = "ok"
            /\ pc' = "loaded"
            /\ result' = next_actionable_story(dev_status)
    /\ UNCHANGED <<config, dev_status, git_log, i, story_file_exists, resume_step, round_num,
                   story_done, story_count, steps, last_result, counted, recovered,
                   return_value, git_dirty, launch_timeout, sessvars>>
    /\ UNCHANGED outvars

NextLoad == LoadStatus

SpecLoad == InitLoad /\ [][NextLoad]_vars

\* ------------------------------------------------------------ stream parser

\* a str is modelled as a sequence of tokens: an opening, closing or self-closing tag
\* with its name, or a character
Tok(k, n) == [k |-> k, n |-> n]

Open(n) == Tok("open", n)

Close(n) == Tok("close", n)

SelfClosing(n) == Tok("self", n)

Chr(c) == Tok("chr", c)

\* the values json.loads yields, tagged with their Python type
JNull == [t |-> "null", v |-> <<>>]

JNum(n) == [t |-> "num", v |-> n]

JBool(b) == [t |-> "bool", v |-> b]

JStr(s) == [t |-> "str", v |-> s]

JList(l) == [t |-> "list", v |-> l]

JDict(d) == [t |-> "dict", v |-> d]

\* a short str without tags, such as a type name
Name(s) == JStr(<<Chr(s)>>)

IsName(x, s) == x.t = "str" /\ x.v = <<Chr(s)>>

EmptyDict == [k \in {} |-> JNull]

\* dict.get(key, default)
Get(d, key, default) == IF key \in DOMAIN d THEN d[key] ELSE default

\* a line of the stream: blank, not JSON, JSON nested deeper than the interpreter's
\* recursion limit, or JSON that decodes to data
RawLine(form, data) == [form |-> form, data |-> data]

JsonLine(data) == RawLine("json", data)

\* json.loads(raw): the value, or the exception it raises
json_loads(raw) ==
    CASE raw.form = "invalid" -> [exc |-> "JSONDecodeError", data |-> JNull]
      [] raw.form = "deep" -> [exc |-> "RecursionError", data |-> JNull]
      [] OTHER -> [exc |-> "", data |-> raw.data]

Event(type, marker, is_error, num_turns, duration_ms, has_cost) ==
    [type |-> type, marker |-> marker, is_error |-> is_error, num_turns |-> num_turns,
     duration_ms |-> duration_ms, has_cost |-> has_cost,
     text |-> JNull, is_thinking |-> FALSE, payload |-> <<>>]

\* a TextEvent the supervisor emits itself
TextEvent == Event("text", "", FALSE, 0, 0, FALSE)

\* TextEvent(text=text, is_thinking=is_thinking)
TextEventOf(text, is_thinking) ==
    [TextEvent EXCEPT !.text = text, !.is_thinking = is_thinking]

MarkerEvent(m) == Event("marker", m, FALSE, 0, 0, FALSE)

\* MarkerEvent(marker_type=m, payload=payload)
MarkerEventOf(m, payload) == [MarkerEvent(m) EXCEPT !.payload = payload]

ResultEvent(is_error, num_turns, duration_ms, has_cost) ==
    Event("result", "", is_error, num_turns, duration_ms, has_cost)

UnknownEvent == Event("unknown", "", FALSE, 0, 0, FALSE)

ToolUseEvent == Event("tool_use", "", FALSE, 0, 0, FALSE)

ToolResultEvent == Event("tool_result", "", FALSE, 0, 0, FALSE)

InitEvent == Event("init", "", FALSE, 0, 0, FALSE)

SystemEvent == Event("system", "", FALSE, 0, 0, FALSE)

RateLimitEvent == Event("rate_limit", "", FALSE, 0, 0, FALSE)

\* the names _MARKER_PAIRED_RE and _MARKER_SELF_RE accept
PairedTags == {"HALT", "CREATE_STORY_COMPLETE", "DEV_STORY_COMPLETE",
               "CODE_REVIEW_APPROVED", "CODE_REVIEW_ISSUES"}

SelfTags == {"NO_BACKLOG_STORIES", "NO_READY_STORIES"}

\* the positions after p that hold the closing tag of name n
Closers(text, p, n) == {q \in (p + 1)..Len(text) : text[q] = Close(n)}

\* variant: the payload runs to the last closing tag
MatchEnd_greedy(text, p, n) ==
    CHOOSE x \in Closers(text, p, n) : \A y \in Closers(text, p, n) : y <= x

\* (.*?)</\1>: the match ends at the nearest closing tag
MatchEnd(text, p, n) ==
    CHOOSE x \in Closers(text, p, n) : \A y \in Closers(text, p, n) : x <= y

RECURSIVE PairedFrom(_, _)
\* _MARKER_PAIRED_RE.finditer from position p: the leftmost opening tag that has a
\* closing tag of its name behind it matches up to the nearest one, and the scan goes
\* on behind the match
PairedFrom(text, p) ==
    IF p > Len(text) THEN <<>>
    ELSE IF /\ text[p].k = "open" /\ text[p].n \in PairedTags
            /\ Closers(text, p, text[p].n) # {}
         THEN LET q == MatchEnd(text, p, text[p].n)
              IN  <<MarkerEventOf(text[p].n, SubSeq(text, p + 1, q - 1))>>
                     \o PairedFrom(text, q + 1)
         ELSE PairedFrom(text, p + 1)

RECURSIVE SelfFrom(_, _)
\* _MARKER_SELF_RE.finditer from position p
SelfFrom(text, p) ==
    IF p > Len(text) THEN <<>>
    ELSE (IF text[p].k = "self" /\ text[p].n \in SelfTags
          THEN <<MarkerEventOf(text[p].n, <<>>)>> ELSE <<>>) \o SelfFrom(text, p + 1)

\* _detect_markers: the paired matches, then the self-closing ones
detect_markers(text) == PairedFrom(text, 1) \o SelfFrom(text, 1)

\* what a sub-parser does: it returns events or raises
Ok(events) == [ok |-> TRUE, events |-> events]

Raises == [ok |-> FALSE, events |-> <<>>]

\* for block in content_list: the items of a list, the characters of a str, the keys
\* of a dict; anything else is not iterable
Items(c) ==
    CASE c.t = "list" -> Ok(c.v)
      [] c.t = "str" -> Ok([k \in 1..Len(c.v) |-> JStr(<<c.v[k]>>)])
      [] c.t = "dict" -> Ok([k \in 1..Cardinality(DOMAIN c.v) |-> JStr(<<>>)])
      [] OTHER -> Raises

\* one pass of the loop of _parse_assistant
AssistantBlock(block) ==
    IF block.t # "dict" THEN Raises
    ELSE LET btype == Get(block.v, "type", JStr(<<>>))
         IN  CASE IsName(btype, "text") ->
                    LET text == Get(block.v, "text", JStr(<<>>))
                    IN  IF text.t # "str" THEN Raises
                        ELSE Ok(<<TextEventOf(text, FALSE)>> \o detect_markers(text.v))
               [] IsName(btype, "tool_use") ->
                    LET name == Get(block.v, "name", JStr(<<>>))
                        input_data == Get(block.v, "input", JDict(EmptyDict))
                    IN  IF input_data.t = "dict" /\ name.t \in {"list", "dict"}
                        THEN Raises ELSE Ok(<<ToolUseEvent>>)
               [] IsName(btype, "thinking") ->
                    Ok(<<TextEventOf(Get(block.v, "thinking", JStr(<<>>)), TRUE)>>)
               [] OTHER -> Ok(<<>>)

\* variant: the text blocks of a user record are scanned for markers too
UserBlock_scanned(block) ==
    IF block.t # "dict" THEN Raises
    ELSE LET btype == Get(block.v, "type", JStr(<<>>))
         IN  CASE IsName(btype, "tool_result") -> Ok(<<ToolResultEvent>>)
               [] IsName(btype, "text") -> AssistantBlock(block)
               [] OTHER -> Ok(<<>>)

\* " ".join(parts) of a tool_result whose content is a list
JoinRaises(content) ==
    \E k \in 1..Len(content) :
       /\ content[k].t = "dict"
       /\ IsName(Get(content[k].v, "type", JNull), "text")
       /\ Get(content[k].v, "text", JStr(<<>>)).t # "str"

\* one pass of the loop of _parse_user
UserBlock(block) ==
    IF block.t # "dict" THEN Raises
    ELSE LET btype == Get(block.v, "type", JStr(<<>>))
         IN  CASE IsName(btype, "tool_result") ->
                    LET content == Get(block.v, "content", JStr(<<>>))
                    IN  IF content.t = "list" /\ JoinRaises(content.v)
                        THEN Raises ELSE Ok(<<ToolResultEvent>>)
               [] IsName(btype, "text") ->
                    Ok(<<TextEventOf(Get(block.v, "text", JStr(<<>>)), FALSE)>>)
               [] OTHER -> Ok(<<>>)

RECURSIVE AssistantBlocks(_)
AssistantBlocks(blocks) ==
    IF blocks = <<>> THEN Ok(<<>>)
    ELSE LET first == AssistantBlock(Head(blocks))
             rest == AssistantBlocks(Tail(blocks))
         IN  IF first.ok /\ rest.ok THEN Ok(first.events \o rest.events) ELSE Raises

RECURSIVE UserBlocks(_)
UserBlocks(blocks) ==
    IF blocks = <<>> THEN Ok(<<>>)
    ELSE LET first == UserBlock(Head(blocks))
             rest == UserBlocks(Tail(blocks))
         IN  IF first.ok /\ rest.ok THEN Ok(first.events \o rest.events) ELSE Raises

\* events if events else [UnknownEvent(raw_data=data)]
OrUnknown(r) == IF r.ok /\ r.events = <<>> THEN Ok(<<UnknownEvent>>) ELSE r

\* message.get("content", []) of data.get("message", {})
ContentList(data) ==
    LET message == Get(data, "message", JDict(EmptyDict))
    IN  IF message.t # "dict" THEN Raises
        ELSE Items(Get(message.v, "content", JList(<<>>)))

parse_assistant(data) ==
    LET content_list == ContentList(data)
    IN  IF ~content_list.ok THEN Raises
        ELSE OrUnknown(AssistantBlocks(content_list.events))

parse_user(data) ==
    LET content_list == ContentList(data)
    IN  IF ~content_list.ok THEN Raises
        ELSE OrUnknown(UserBlocks(content_list.events))

\* _parse_result: float(cost) raises on a cost that is no number
parse_result(data) ==
    LET total == Get(data, "total_cost_usd", JNull)
        cost == IF total.t = "null" THEN Get(data, "cost_usd", JNull) ELSE total
    IN  IF cost.t \notin {"null", "num", "bool"} THEN Raises
        ELSE Ok(<<ResultEvent(Get(data, "is_error", JBool(FALSE)).v,
                              Get(data, "num_turns", JNum(0)).v,
                              Get(data, "duration_ms", JNum(0)).v,
                              cost.t # "null")>>)

\* _parse_system: the tools of an init record are iterated
parse_system(data) ==
    IF IsName(Get(data, "subtype", JStr(<<>>)), "init")
    THEN IF Get(data, "tools", JList(<<>>)).t \in {"list", "str", "dict"}
         THEN Ok(<<InitEvent>>) ELSE Raises
    ELSE Ok(<<SystemEvent>>)

\* _parse_rate_limit
parse_rate_limit(data) ==
    IF Get(data, "rate_limit_info", JDict(EmptyDict)).t = "dict"
    THEN Ok(<<RateLimitEvent>>) ELSE Raises

\* the match on data.get("type", "")
ParseRecord(data) ==
    LET msg_type == Get(data, "type", JStr(<<>>))
    IN  CASE IsName(msg_type, "system") -> parse_system(data)
          [] IsName(msg_type, "assistant") -> parse_assistant(data)
          [] IsName(msg_type, "user") -> parse_user(data)
          [] IsName(msg_type, "result") -> parse_result(data)
          [] IsName(msg_type, "rate_limit_event") -> parse_rate_limit(data)
          [] OTHER -> Ok(<<UnknownEvent>>)

\* parse_line raises: json.loads raised something other than a ValueError
parse_line_raises(raw) ==
    raw.form # "blank" /\ json_loads(raw).exc \notin {"", "JSONDecodeError"}

\* parse_line: the events of one line; an exception of a sub-parser degrades to one
\* UnknownEvent (the value is <<>> where parse_line raises)
parse_line(raw) ==
    IF raw.form = "blank" THEN <<UnknownEvent>>
    ELSE IF json_loads(raw).exc = "JSONDecodeError" THEN <<UnknownEvent>>
    ELSE IF json_loads(raw).exc # "" THEN <<>>
    ELSE IF json_loads(raw).data.t # "dict" THEN <<UnknownEvent>>
    ELSE LET r == ParseRecord(json_loads(raw).data.v)
         IN  IF r.ok THEN r.events ELSE <<UnknownEvent>>

\* ------------------------------------------------------ session supervisor

AssistantLine(blocks) ==
    JsonLine(JDict([type |-> Name("assistant"),
                    message |-> JDict([content |-> JList(blocks)])]))

UserLine(blocks) ==
    JsonLine(JDict([type |-> Name("user"),
                    message |-> JDict([content |-> JList(blocks)])]))

TextBlock(text) == JDict([type |-> Name("text"), text |-> JStr(text)])

ThinkingBlock(text) == JDict([type |-> Name("thinking"), thinking |-> JStr(text)])

\* an assistant text block without a marker
TextLine == AssistantLine(<<TextBlock(<<Chr("x")>>)>>)

\* an assistant text block with <HALT></HALT>
HaltLine == AssistantLine(<<TextBlock(<<Open("HALT"), Close("HALT")>>)>>)

\* an assistant text block with <DEV_STORY_COMPLETE></DEV_STORY_COMPLETE>
CompleteLine ==
    AssistantLine(<<TextBlock(<<Open("DEV_STORY_COMPLETE"), Close("DEV_STORY_COMPLETE")>>)>>)

\* a result line without is_error, with cost
ResultOkLine ==
    JsonLine(JDict([type |-> Name("result"), is_error |-> JBool(FALSE),
                    num_turns |-> JNum(3), duration_ms |-> JNum(500),
                    total_cost_usd |-> JNum(1)]))

\* a result line with is_error, without cost
ResultErrLine ==
    JsonLine(JDict([type |-> Name("result"), is_error |-> JBool(TRUE),
                    num_turns |-> JNum(7), duration_ms |-> JNum(900)]))

\* the kinds of output line a session's subprocess writes
LineKinds == {TextLine, HaltLine, CompleteLine, ResultOkLine, ResultErrLine}

RECURSIVE SeqsUpTo(_, _)
SeqsUpTo(S, n) ==
    IF n = 0 THEN {<<>>}
    ELSE LET shorter == SeqsUpTo(S, n - 1)
         IN  shorter \cup {Append(s, x) : s \in {q \in shorter : Len(q) = n - 1}, x \in S}

Streams == SeqsUpTo(LineKinds, MaxLines)

\* markers.append(event) for each MarkerEvent, in order
RECURSIVE CollectMarkers(_, _)
CollectMarkers(ms, events) ==
    IF events = <<>> THEN ms
    ELSE CollectMarkers(IF Head(events).type = "marker" THEN Append(ms, Head(events).marker)
                        ELSE ms,
                        Tail(events))

\* variant: the first ResultEvent stays
RetainResult_first(re, events) ==
    IF re.present \/ events = <<>> \/ Head(events).type # "result" THEN re
    ELSE [present |-> TRUE, is_error |-> Head(events).is_error,
          num_turns |-> Head(events).num_turns,
          duration_ms |-> Head(events).duration_ms,
          has_cost |-> Head(events).has_cost]

\* result_event = event for each ResultEvent, the last one stays
RECURSIVE RetainResult(_, _)
RetainResult(re, events) ==
    IF events = <<>> THEN re
    ELSE RetainResult(IF Head(events).type = "result"
                      THEN [present |-> TRUE, is_error |-> Head(events).is_error,
                            num_turns |-> Head(events).num_turns,
                            duration_ms |-> Head(events).duration_ms,
                            has_cost |-> Head(events).has_cost]
                      ELSE re,
                      Tail(events))

\* variant: success read from the exit code alone
SessionSuccess_exitOnly(re, code) == code = 0

\* success of a session that completed: exit code and result event
SessionSuccess(re, code) ==
    IF re.present THEN ~re.is_error /\ code = 0 ELSE code = 0

\* the StepResult of a session that completed
NormalResult(re, code, ms) ==
    [success |-> SessionSuccess(re, code),
     duration_ms |-> IF re.present THEN re.duration_ms ELSE 0,
     num_turns |-> IF re.present THEN re.num_turns ELSE 0,
     has_cost |-> re.present /\ re.has_cost,
     markers_detected |-> ms]

\* variant: a timed-out session reports what its result event says
TimedOutResult_fromEvent(tm, re, ms) ==
    [success |-> re.present /\ ~re.is_error,
     duration_ms |-> IF re.present THEN re.duration_ms ELSE tm * 60 * 1000,
     num_turns |-> IF re.present THEN re.num_turns ELSE 0,
     has_cost |-> re.present /\ re.has_cost,
     markers_detected |-> ms]

\* the StepResult of a session that timed out
TimedOutResult(tm, re, ms) ==
    [success |-> FALSE,
     duration_ms |-> tm * 60 * 1000,
     num_turns |-> IF re.present THEN re.num_turns ELSE 0,
     has_cost |-> re.present /\ re.has_cost,
     markers_detected |-> ms]

\* variant: the kill follows the terminate whatever the subprocess did
GraceTimesOut_always(p) == TRUE

\* asyncio.wait_for(proc.wait(), timeout=10) raises TimeoutError: the subprocess is
\* still running when the grace window ends
GraceTimesOut(p) == p = "running"

\* exit statuses a subprocess can end with
ExitCodes(pos, sigs) ==
    IF pos = "killing" THEN {-9}
    ELSE IF sigs # <<>> THEN {0, 1, -15}
    ELSE {0, 1}

\* the orchestration loop is not part of a session call
NoRun ==
    /\ config = [max_stories |-> 1, max_review_rounds |-> 1, dry_run |-> FALSE,
                 test_cmd |-> "", session_timeout_minutes |-> DefaultTimeoutMinutes]
    /\ dev_status = <<>>
    /\ git_log = {}
    /\ pc = "session"
    /\ i = 1
    /\ result = <<>>
    /\ story_file_exists = FALSE
    /\ resume_step = "CS"
    /\ round_num = 1
    /\ story_done = FALSE
    /\ story_count = 0
    /\ steps = <<>>
    /\ last_result = NoResult
    /\ counted = <<>>
    /\ recovered = <<>>
    /\ return_value = -1
    /\ git_dirty = FALSE
    /\ launch_timeout = 0
    /\ NoOutput
    /\ bad_reads = 0
    /\ read_attempts = 0
    /\ read_state = "ok"

runvars == <<config, dev_status, git_log, pc, i, result, story_file_exists, resume_step,
             round_num, story_done, story_count, steps, last_result, counted, recovered,
             return_value, git_dirty, launch_timeout, outvars, loadvars>>

\* a call of run_claude_session or of run_commit_session is entered
InitSession ==
    /\ NoRun
    /\ s_call \in {"claude", "commit"}
    /\ s_pc = "start"
    /\ timeout_minutes \in {1, DefaultTimeoutMinutes}
    /\ stream \in IF s_call = "claude" THEN Streams ELSE {<<>>}
    /\ s_call = "commit" => timeout_minutes = DefaultTimeoutMinutes
    /\ log_lines = <<>>
    /\ delivered = <<>>
    /\ markers = <<>>
    /\ result_event = NoResultEvent
    /\ proc = "none"
    /\ returncode = 0
    /\ launched = <<>>
    /\ active_process = "None"
    /\ session_active = FALSE
    /\ timed_out = FALSE
    /\ exit_code = 0
    /\ signals = <<>>
    /\ interrupts = 0
    /\ commit_msg = ""
    /\ s_result = NoStepResult
    /\ pending = <<>>
    /\ stdout = ""
    /\ live = 0
    /\ calls = 0

\* run_claude_session: create_subprocess_exec, the handle and the flag are set
Launch ==
    /\ s_call = "claude"
    /\ s_pc = "start"
    /\ \E found \in BOOLEAN :
          IF found
          THEN /\ proc' = "running"
               /\ launched' = Append(launched, "claude")
               /\ active_process' = "proc"
               /\ session_active' = TRUE
               /\ s_pc' = "streaming"
          ELSE /\ s_pc' = "raised"
               /\ UNCHANGED <<proc, launched, active_process, session_active>>
    /\ UNCHANGED <<s_call, timeout_minutes, stream, log_lines, delivered, markers,
                   result_event, returncode, timed_out, exit_code, signals, interrupts,
                   commit_msg, s_result>>
    /\ UNCHANGED <<pending, stdout>>
    /\ live' = IF s_pc' = "raised" THEN live ELSE live + 1
    /\ calls' = calls
    /\ UNCHANGED runvars

\* variant: the events of a line are dispatched last first
Dispatch_lastFirst ==
    /\ s_call = "claude"
    /\ s_pc = "streaming"
    /\ pending # <<>>
    /\ LET event == pending[Len(pending)]
       IN  /\ delivered' = Append(delivered, event)
           /\ markers' = CollectMarkers(markers, <<event>>)
           /\ result_event' = RetainResult(result_event, <<event>>)
           /\ pending' = SubSeq(pending, 1, Len(pending) - 1)
    /\ UNCHANGED <<s_call, s_pc, timeout_minutes, stream, log_lines, proc, returncode,
                   launched, active_process, session_active, timed_out, exit_code, signals,
                   interrupts, commit_msg, s_result, stdout>>
    /\ live' = live
    /\ calls' = calls
    /\ UNCHANGED runvars

\* the read loop takes the next line: it is written to the log and parsed
ReadLine ==
    /\ s_call = "claude"
    /\ s_pc = "streaming"
    /\ stream # <<>>
    /\ pending = <<>>
    /\ LET line == Head(stream)
       IN  /\ stream' = Tail(stream)
           /\ log_lines' = Append(log_lines, line)
           /\ pending' = parse_line(line)
           /\ IF parse_line_raises(line)
              THEN /\ s_pc' = "raised"
                   /\ active_process' = "None"
                   /\ session_active' = FALSE
              ELSE UNCHANGED <<s_pc, active_process, session_active>>
    /\ UNCHANGED <<s_call, timeout_minutes, delivered, markers, result_event, proc,
                   returncode, launched, timed_out,
                   exit_code, signals, interrupts, commit_msg, s_result, stdout>>
    /\ live' = live
    /\ calls' = calls
    /\ UNCHANGED runvars

\* one pass of for event in events: the event goes to the tui and is collected
Dispatch ==
    /\ s_call = "claude"
    /\ s_pc = "streaming"
    /\ pending # <<>>
    /\ LET event == Head(pending)
       IN  /\ delivered' = Append(delivered, event)
           /\ markers' = CollectMarkers(markers, <<event>>)
           /\ result_event' = RetainResult(result_event, <<event>>)
           /\ pending' = Tail(pending)
    /\ UNCHANGED <<s_call, s_pc, timeout_minutes, stream, log_lines, proc, returncode,
                   launched, active_process, session_active, timed_out, exit_code, signals,
                   interrupts, commit_msg, s_result, stdout>>
    /\ live' = live
    /\ calls' = calls
    /\ UNCHANGED runvars

\* the output ends: the log is closed and proc.wait() is awaited
EndOfStream ==
    /\ s_call = "claude"
    /\ s_pc = "streaming"
    /\ stream = <<>>
    /\ pending = <<>>
    /\ s_pc' = "waiting"
    /\ UNCHANGED <<s_call, timeout_minutes, stream, log_lines, delivered, markers,
                   result_event, proc, returncode, launched, active_process, session_active,
                   timed_out, exit_code, signals, interrupts, commit_msg, s_result>>
    /\ UNCHANGED <<pending, stdout>>
    /\ live' = live
    /\ calls' = calls
    /\ UNCHANGED runvars

\* the subprocess exits, by itself or on a signal
ProcExit ==
    /\ proc = "running"
    /\ pending = <<>>
    /\ proc' = "exited"
    /\ returncode' \in ExitCodes(s_pc, signals)
    /\ UNCHANGED <<s_call, s_pc, timeout_minutes, stream, log_lines, delivered, markers,
                   result_event, launched, active_process, session_active, timed_out,
                   exit_code, signals, interrupts, commit_msg, s_result>>
    /\ stdout' \in IF s_pc = "c_gen" THEN {"", " ", "feat"} ELSE {stdout}
    /\ pending' = pending
    /\ live' = live - 1
    /\ calls' = calls
    /\ UNCHANGED runvars

\* proc.wait() returns inside the timeout: finally, then the result
Complete ==
    /\ s_call = "claude"
    /\ s_pc = "waiting"
    /\ proc = "exited"
    /\ exit_code' = returncode
    /\ active_process' = "None"
    /\ session_active' = FALSE
    /\ s_result' = NormalResult(result_event, returncode, markers)
    /\ s_pc' = "returned"
    /\ UNCHANGED <<s_call, timeout_minutes, stream, log_lines, delivered, markers,
                   result_event, proc, returncode, launched, timed_out, signals, interrupts,
                   commit_msg>>
    /\ UNCHANGED <<pending, stdout>>
    /\ live' = live
    /\ calls' = calls
    /\ UNCHANGED runvars

\* asyncio.wait_for raises TimeoutError at an await inside _stream_and_collect: the
\* notice is shown and proc.terminate() is called
Timeout ==
    /\ s_call = "claude"
    /\ s_pc \in {"streaming", "waiting"}
    /\ pending = <<>>
    /\ timed_out' = TRUE
    /\ delivered' = Append(delivered, TextEvent)
    /\ signals' = Append(signals, "terminate")
    /\ s_pc' = "terminating"
    /\ UNCHANGED <<s_call, timeout_minutes, stream, log_lines, markers, result_event, proc,
                   returncode, launched, active_process, session_active, exit_code,
                   interrupts, commit_msg, s_result>>
    /\ UNCHANGED <<pending, stdout>>
    /\ live' = live
    /\ calls' = calls
    /\ UNCHANGED runvars

\* the wait of at most 10 seconds after terminate() ends: by TimeoutError and
\* proc.kill(), or by the subprocess's exit, and then exit_code = -1, finally and the
\* result of a timed-out session
GraceEnds ==
    /\ s_call = "claude"
    /\ s_pc = "terminating"
    /\ IF GraceTimesOut(proc)
       THEN /\ signals' = Append(signals, "kill")
            /\ s_pc' = "killing"
            /\ UNCHANGED <<exit_code, active_process, session_active, s_result>>
       ELSE /\ proc = "exited"
            /\ exit_code' = -1
            /\ active_process' = "None"
            /\ session_active' = FALSE
            /\ s_result' = TimedOutResult(timeout_minutes, result_event, markers)
            /\ s_pc' = "returned"
            /\ signals' = signals
    /\ UNCHANGED <<s_call, timeout_minutes, stream, log_lines, delivered, markers,
                   result_event, proc, returncode, launched, timed_out, interrupts,
                   commit_msg>>
    /\ UNCHANGED <<pending, stdout>>
    /\ live' = live
    /\ calls' = calls
    /\ UNCHANGED runvars

\* variant: the call returns after proc.kill() without awaiting the exit
KillReturn_noWait ==
    /\ s_call = "claude"
    /\ s_pc = "killing"
    /\ exit_code' = -1
    /\ active_process' = "None"
    /\ session_active' = FALSE
    /\ s_result' = TimedOutResult(timeout_minutes, result_event, markers)
    /\ s_pc' = "returned"
    /\ UNCHANGED <<s_call, timeout_minutes, stream, log_lines, delivered, markers,
                   result_event, proc, returncode, launched, timed_out, signals, interrupts,
                   commit_msg>>
    /\ UNCHANGED <<pending, stdout>>
    /\ live' = live
    /\ calls' = calls
    /\ UNCHANGED runvars

\* await proc.wait() after proc.kill() returns
KillReturn ==
    /\ s_call = "claude"
    /\ s_pc = "killing"
    /\ proc = "exited"
    /\ exit_code' = -1
    /\ active_process' = "None"
    /\ session_active' = FALSE
    /\ s_result' = TimedOutResult(timeout_minutes, result_event, markers)
    /\ s_pc' = "returned"
    /\ UNCHANGED <<s_call, timeout_minutes, stream, log_lines, delivered, markers,
                   result_event, proc, returncode, launched, timed_out, signals, interrupts,
                   commit_msg>>
    /\ UNCHANGED <<pending, stdout>>
    /\ live' = live
    /\ calls' = calls
    /\ UNCHANGED runvars

\* variant: the exception leaves the call without the flag being cleared
StreamRaises_flagLeft ==
    /\ s_call = "claude"
    /\ s_pc = "streaming"
    /\ active_process' = "None"
    /\ s_pc' = "raised"
    /\ pending' = <<>>
    /\ UNCHANGED <<s_call, timeout_minutes, stream, log_lines, delivered, markers,
                   result_event, proc, returncode, launched, session_active, timed_out,
                   exit_code, signals, interrupts, commit_msg, s_result, stdout>>
    /\ live' = live
    /\ calls' = calls
    /\ UNCHANGED runvars

\* an exception leaves _stream_and_collect (open() or log_fh.write() raise OSError):
\* finally runs and the exception leaves run_claude_session
StreamRaises ==
    /\ s_call = "claude"
    /\ s_pc = "streaming"
    /\ active_process' = "None"
    /\ session_active' = FALSE
    /\ s_pc' = "raised"
    /\ UNCHANGED <<s_call, timeout_minutes, stream, log_lines, delivered, markers,
                   result_event, proc, returncode, launched, timed_out, exit_code, signals,
                   interrupts, commit_msg, s_result>>
    /\ pending' = <<>>
    /\ stdout' = stdout
    /\ live' = live
    /\ calls' = calls
    /\ UNCHANGED runvars

\* variant: terminate is sent to whatever subprocess is registered
CleanupTerminates_registered(handle, p) == handle # "None"

\* _active_process is not None and _active_process.returncode is None
CleanupTerminates(handle, p) == handle # "None" /\ p = "running"

\* cleanup_subprocess, the SIGINT/SIGTERM handler
Interrupt ==
    /\ interrupts < MaxInterrupts
    /\ pending = <<>>
    /\ interrupts' = interrupts + 1
    /\ signals' = IF CleanupTerminates(active_process, proc)
                  THEN Append(signals, "cleanup_terminate")
                  ELSE signals
    /\ UNCHANGED <<s_call, s_pc, timeout_minutes, stream, log_lines, delivered, markers,
                   result_event, proc, returncode, launched, active_process, session_active,
                   timed_out, exit_code, commit_msg, s_result>>
    /\ UNCHANGED <<pending, stdout>>
    /\ live' = live
    /\ calls' = calls
    /\ UNCHANGED runvars

\* str.strip on the outputs the generation may print
strip(out) == IF out = " " THEN "" ELSE out

\* variant: any output of the generation is taken as the message
CommitMessage_anyExit(rc, out) == IF strip(out) # "" THEN "generated" ELSE "fallback"

\* the commit message: the generation's output when it exited 0 and printed
\* something, else the templated fallback
CommitMessage(rc, out) ==
    LET msg == IF rc = 0 /\ out # "" THEN strip(out) ELSE ""
    IN  IF msg # "" THEN "generated" ELSE "fallback"

\* run_commit_session: git add -A is started
CommitStageAll ==
    /\ s_call = "commit"
    /\ s_pc = "start"
    /\ \E found \in BOOLEAN :
          IF found
          THEN /\ proc' = "running"
               /\ launched' = Append(launched, "git add")
               /\ s_pc' = "c_add"
          ELSE /\ s_pc' = "raised"
               /\ UNCHANGED <<proc, launched>>
    /\ UNCHANGED <<s_call, timeout_minutes, stream, log_lines, delivered, markers,
                   result_event, returncode, active_process, session_active, timed_out,
                   exit_code, signals, interrupts, commit_msg, s_result>>
    /\ UNCHANGED <<pending, stdout>>
    /\ live' = IF s_pc' = "raised" THEN live ELSE live + 1
    /\ calls' = calls
    /\ UNCHANGED runvars

\* add_proc.wait() returned: the flag is set and the message generation is started;
\* when claude cannot be started the OSError is swallowed and git commit is started
\* with the fallback message
CommitGenerate ==
    /\ s_call = "commit"
    /\ s_pc = "c_add"
    /\ proc = "exited"
    /\ \E found \in BOOLEAN :
          IF found
          THEN /\ launched' = Append(launched, "claude")
               /\ session_active' = TRUE
               /\ commit_msg' = commit_msg
               /\ s_pc' = "c_gen"
          ELSE /\ launched' = Append(launched, "git commit")
               /\ session_active' = FALSE
               /\ commit_msg' = "fallback"
               /\ s_pc' = "c_commit"
    /\ proc' = "running"
    /\ UNCHANGED <<s_call, timeout_minutes, stream, log_lines, delivered, markers,
                   result_event, returncode, active_process, timed_out, exit_code, signals,
                   interrupts, s_result>>
    /\ UNCHANGED <<pending, stdout>>
    /\ live' = live + 1
    /\ calls' = calls
    /\ UNCHANGED runvars

\* gen_proc.communicate() returned: the message is the output or the fallback, the
\* flag is cleared and git commit is started
CommitCommit ==
    /\ s_call = "commit"
    /\ s_pc = "c_gen"
    /\ proc = "exited"
    /\ commit_msg' = CommitMessage(returncode, stdout)
    /\ UNCHANGED <<pending, stdout>>
    /\ session_active' = FALSE
    /\ launched' = Append(launched, "git commit")
    /\ proc' = "running"
    /\ s_pc' = "c_commit"
    /\ UNCHANGED <<s_call, timeout_minutes, stream, log_lines, delivered, markers,
                   result_event, returncode, active_process, timed_out, exit_code, signals,
                   interrupts, s_result>>
    /\ live' = live + 1
    /\ calls' = calls
    /\ UNCHANGED runvars

\* commit_proc.wait() returned: success is the exit status of git commit
CommitReturn ==
    /\ s_call = "commit"
    /\ s_pc = "c_commit"
    /\ proc = "exited"
    /\ delivered' = Append(delivered, TextEvent)
    /\ s_result' = [NoStepResult EXCEPT !.success = commit_success(returncode)]
    /\ s_pc' = "returned"
    /\ UNCHANGED <<s_call, timeout_minutes, stream, log_lines, markers, result_event, proc,
                   returncode, launched, active_process, session_active, timed_out,
                   exit_code, signals, interrupts, commit_msg>>
    /\ UNCHANGED <<pending, stdout>>
    /\ live' = live
    /\ calls' = calls
    /\ UNCHANGED runvars

NextSession ==
    \/ Launch
    \/ ReadLine
    \/ Dispatch
    \/ EndOfStream
    \/ ProcExit
    \/ Complete
    \/ Timeout
    \/ GraceEnds
    \/ KillReturn
    \/ StreamRaises
    \/ Interrupt
    \/ CommitStageAll
    \/ CommitGenerate
    \/ CommitCommit
    \/ CommitReturn

SpecSession == InitSession /\ [][NextSession]_vars

\* ------------------------------------------- session calls one after another

\* the first session call of a run_stories run, on a short stream
InitSeq ==
    /\ InitSession
    /\ Len(stream) <= 1

\* run_stories awaits each session call: the next one is entered when the call
\* before it returned; an exception of a call leaves run_stories
NextCall ==
    /\ s_pc = "returned"
    /\ calls < MaxCalls
    /\ calls' = calls + 1
    /\ s_call' \in {"claude", "commit"}
    /\ s_pc' = "start"
    /\ timeout_minutes' \in {1, DefaultTimeoutMinutes}
    /\ stream' \in IF s_call' = "claude" THEN SeqsUpTo(LineKinds, 1) ELSE {<<>>}
    /\ s_call' = "commit" => timeout_minutes' = DefaultTimeoutMinutes
    /\ log_lines' = <<>>
    /\ delivered' = <<>>
    /\ markers' = <<>>
    /\ result_event' = NoResultEvent
    /\ proc' = "none"
    /\ returncode' = 0
    /\ launched' = <<>>
    /\ timed_out' = FALSE
    /\ exit_code' = 0
    /\ signals' = <<>>
    /\ interrupts' = 0
    /\ commit_msg' = ""
    /\ s_result' = NoStepResult
    /\ stdout' = ""
    /\ UNCHANGED <<active_process, session_active, pending, live>>
    /\ UNCHANGED runvars

NextSeq ==
    \/ NextSession
    \/ NextCall

SpecSeq == InitSeq /\ [][NextSeq]_vars

\* ------------------------------------------------------ parse_line alone

\* the tokens of the texts parsed: two paired markers, a self-closing one, a tag that
\* is no marker, a character and a newline
TextTokens ==
    {Open("HALT"), Close("HALT"), Open("DEV_STORY_COMPLETE"), Close("DEV_STORY_COMPLETE"),
     SelfClosing("NO_READY_STORIES"), Open("FOO"), Close("FOO"), Chr("x"), Chr("\n")}

Texts == SeqsUpTo(TextTokens, MaxTextLen)

HaltText == <<Open("HALT"), Chr("x"), Close("HALT")>>

ToolResultBlock(content) == JDict([type |-> Name("tool_result"), content |-> content])

\* content blocks of assistant records, well-formed and not
AssistantBlockSet ==
    {TextBlock(HaltText), TextBlock(<<Chr("x")>>), ThinkingBlock(HaltText),
     JDict([type |-> Name("tool_use"), name |-> Name("Read")]),
     JDict([type |-> Name("image")]),
     Name("oops"),
     JDict([type |-> Name("text"), text |-> JNum(5)]),
     JDict([type |-> Name("thinking"), thinking |-> JNum(5)])}

\* content blocks of user records, well-formed and not
UserBlockSet ==
    {TextBlock(HaltText), ToolResultBlock(JStr(HaltText)),
     ToolResultBlock(JList(<<TextBlock(HaltText)>>)),
     ToolResultBlock(JList(<<JDict([type |-> Name("text"), text |-> JNum(5)])>>)),
     Name("oops")}

\* lines that are no decodable record
NonRecords ==
    {RawLine("blank", JNull), RawLine("invalid", JNull), RawLine("deep", JNull),
     JsonLine(JNum(1)), JsonLine(JNull), JsonLine(JList(<<>>)), JsonLine(JStr(HaltText))}

\* records without a known type
UntypedRecords ==
    {JsonLine(JDict([data |-> JStr(HaltText)])),
     JsonLine(JDict([type |-> JNum(1)])),
     JsonLine(JDict([type |-> Name("something_new"), text |-> JStr(HaltText)]))}

\* assistant records whose message or content has an unexpected shape
OddAssistantRecords ==
    {JsonLine(JDict([type |-> Name("assistant")])),
     JsonLine(JDict([type |-> Name("assistant"), message |-> JStr(HaltText)]))}
    \cup {JsonLine(JDict([type |-> Name("assistant"), message |-> JDict([content |-> c])])) :
             c \in {JStr(<<>>), JStr(HaltText), JNum(1), JNull, JDict([text |-> JStr(HaltText)])}}

ResultRecords ==
    {ResultOkLine, ResultErrLine,
     JsonLine(JDict([type |-> Name("result")])),
     JsonLine(JDict([type |-> Name("result"), result |-> JStr(HaltText)])),
     JsonLine(JDict([type |-> Name("result"), total_cost_usd |-> JNull, cost_usd |-> JNum(2)])),
     JsonLine(JDict([type |-> Name("result"), total_cost_usd |-> Name("abc")]))}

OtherRecords ==
    {JsonLine(JDict([type |-> Name("system"), subtype |-> Name("init"),
                     tools |-> JList(<<Name("Read")>>)])),
     JsonLine(JDict([type |-> Name("system"), subtype |-> Name("init"), tools |-> JNum(1)])),
     JsonLine(JDict([type |-> Name("system"), subtype |-> JStr(HaltText)])),
     JsonLine(JDict([type |-> Name("rate_limit_event"),
                     rate_limit_info |-> JDict([status |-> Name("allowed")])])),
     JsonLine(JDict([type |-> Name("rate_limit_event"), rate_limit_info |-> JStr(HaltText)]))}

\* the lines parse_line is applied to
RawLines ==
    NonRecords \cup UntypedRecords \cup OddAssistantRecords \cup ResultRecords
    \cup OtherRecords
    \cup {AssistantLine(<<TextBlock(text)>>) : text \in Texts}
    \cup {AssistantLine(blocks) : blocks \in SeqsUpTo(AssistantBlockSet, MaxBlocks)}
    \cup {UserLine(blocks) : blocks \in SeqsUpTo(UserBlockSet, MaxBlocks)}

InitParse ==
    /\ NoRun
    /\ s_call = "parse"
    /\ s_pc = "start"
    /\ timeout_minutes = DefaultTimeoutMinutes
    /\ stream \in {<<raw>> : raw \in RawLines}
    /\ log_lines = <<>>
    /\ delivered = <<>>
    /\ markers = <<>>
    /\ result_event = NoResultEvent
    /\ proc = "none"
    /\ returncode = 0
    /\ launched = <<>>
    /\ active_process = "None"
    /\ session_active = FALSE
    /\ timed_out = FALSE
    /\ exit_code = 0
    /\ signals = <<>>
    /\ interrupts = 0
    /\ commit_msg = ""
    /\ s_result = NoStepResult
    /\ pending = <<>>
    /\ stdout = ""
    /\ live = 0
    /\ calls = 0

\* parse_line(raw): the events it returns are in pending, or it raises
ParseLine ==
    /\ s_call = "parse"
    /\ s_pc = "start"
    /\ pending' = parse_line(stream[1])
    /\ s_pc' = IF parse_line_raises(stream[1]) THEN "raised" ELSE "returned"
    /\ UNCHANGED <<s_call, timeout_minutes, stream, log_lines, delivered, markers,
                   result_event, proc, returncode, launched, active_process, session_active,
                   timed_out, exit_code, signals, interrupts, commit_msg, s_result, stdout>>
    /\ live' = live
    /\ calls' = calls
    /\ UNCHANGED runvars

NextParse == ParseLine

SpecParse == InitParse /\ [][NextParse]_vars

\* ------------------------------------------------------------------ claims

Ended == pc \in {"summary", "returned"}

Count(seq, k) == Cardinality({n \in 1..Len(seq) : seq[n] = k})

LastStep == IF steps = <<>> THEN "NONE" ELSE steps[Len(steps)]

\* the status document's entry for the selected story
CurStatus == get_story_status(dev_status, story_key)

LastHalted == \E m \in 1..Len(last_result.markers_detected) :
                 last_result.markers_detected[m] = "HALT"

\* no commit session ran for the unit and the tally was not raised in this iteration
NotCounted == Count(steps, "COMMIT") = 0 /\ story_count = i - 1

\* the unit stopped right after its last session
StoppedAfter(kind) == Ended /\ LastStep = kind /\ NotCounted

\* C1: a unit is added to the tally only if its commit session succeeded and the
\* post-commit git-log check finds a commit for it.
C1_DoubleConfirmation ==
    \A n \in 1..Len(counted) : counted[n].commit_success /\ counted[n].in_git_log

\* C2: a Develop result carrying HALT stops the unit without Review or Commit and
\* without counting it, also when the session succeeded and the status is "review".
C2_HaltStopsUnit ==
    (last_result.kind = "DS" /\ LastHalted) => StoppedAfter("DS")

C2_Witness ==
    /\ last_result.kind = "DS" /\ last_result.success /\ LastHalted
    /\ CurStatus = "review"
    /\ pc = "returned"

\* C3: a failed Create (Develop) session whose status read shows "ready-for-dev"
\* ("review") does not abort: the loop continues to Develop (Review).
C3_FailedButAdvancedContinues ==
    /\ (last_result.kind = "CS" /\ ~last_result.success /\ CurStatus = "ready-for-dev"
          /\ config.max_review_rounds >= 1) => pc = "ds"
    /\ (last_result.kind = "DS" /\ ~last_result.success /\ ~LastHalted
          /\ CurStatus = "review") => pc = "cr"

\* C4: a failed Create or Develop session whose status did not reach the phase's
\* expected next status aborts the unit: no later phase runs, nothing is counted.
C4_GenuineFailureAborts ==
    /\ (last_result.kind = "CS" /\ ~last_result.success /\ CurStatus # "ready-for-dev")
          => StoppedAfter("CS")
    /\ (last_result.kind = "DS" /\ ~last_result.success /\ CurStatus # "review")
          => StoppedAfter("DS")

C4_Witness ==
    /\ last_result.kind = "DS" /\ ~last_result.success /\ ~LastHalted
    /\ CurStatus = "in-progress"
    /\ pc = "returned"

\* C5: with max_review_rounds = N, Develop and Review are each launched at most N
\* times for a unit, and a unit whose rounds all ended without "done" is given up
\* without a commit.
C5_RoundBounding ==
    /\ Count(steps, "DS") <= config.max_review_rounds
    /\ Count(steps, "CR") <= config.max_review_rounds
    /\ (last_result.kind = "CR" /\ CurStatus # "done"
          /\ Count(steps, "CR") = config.max_review_rounds) => StoppedAfter("CR")

C5_Witness ==
    /\ config.max_review_rounds = MaxRounds
    /\ Count(steps, "DS") = MaxRounds
    /\ Count(steps, "CR") = MaxRounds
    /\ pc = "returned"

\* C6: Commit runs only right after a Review of the same iteration whose status read
\* is "done"; a Develop that leaves the status at "done" is still followed by Review.
C6_ApprovalGate ==
    /\ pc = "commit" => (last_result.kind = "CR" /\ LastStep = "CR" /\ CurStatus = "done")
    /\ \A n \in 1..Len(steps) : steps[n] = "COMMIT" => (n > 1 /\ steps[n - 1] = "CR")
    /\ (last_result.kind = "DS" /\ last_result.success /\ ~LastHalted /\ CurStatus = "done")
          => pc = "cr"

C6_Witness ==
    /\ pc = "cr"
    /\ last_result.kind = "DS" /\ last_result.success /\ ~LastHalted
    /\ CurStatus = "done"

\* C7: a successful Develop whose status read is neither "review" nor "done" aborts
\* the unit: no Review in that round, no further round, no commit, not counted.
C7_UnexpectedStatusAborts ==
    (last_result.kind = "DS" /\ last_result.success /\ ~LastHalted
       /\ CurStatus \notin {"review", "done"}) => StoppedAfter("DS")

\* C8: a HALT marker in the result of any phase session (Create, Develop, Review)
\* stops the unit: no further phase, no commit.
C8_HaltAlwaysFatal ==
    (last_result.kind \in {"CS", "DS", "CR"} /\ LastHalted) => StoppedAfter(last_result.kind)

\* C9: a Review round is decided by the status read after it, not by the session's
\* success flag: "done" leads to Commit, any other status goes back to Develop while
\* rounds remain and stops the unit without a commit when they are used up.
C9_ReviewDecidedByStatus ==
    last_result.kind = "CR" =>
       /\ CurStatus = "done" => (pc = "commit" /\ story_done)
       /\ (CurStatus # "done" /\ Count(steps, "CR") < config.max_review_rounds)
             => (pc = "ds" /\ ~story_done)
       /\ (CurStatus # "done" /\ Count(steps, "CR") >= config.max_review_rounds)
             => StoppedAfter("CR")

C9_Witness ==
    /\ last_result.kind = "CR" /\ ~last_result.success
    /\ CurStatus = "done"
    /\ pc = "commit"

\* a key of the group-index-slug shape: digits, "-", digits, "-", then anything
StoryShape(key) ==
    \E a \in 1..Len(key), b \in 1..Len(key) :
       /\ a + b + 2 <= Len(key)
       /\ \A p \in 1..a : key[p] \in Digits
       /\ key[a + 1] = "-"
       /\ \A p \in (a + 2)..(a + b + 1) : key[p] \in Digits
       /\ key[a + b + 2] = "-"

TierRank(s) ==
    CASE s = "in-progress" -> 1 [] s = "review" -> 2 [] s = "ready-for-dev" -> 3
      [] s = "backlog" -> 4 [] OTHER -> 5

Actionable(j) == StoryShape(dev_status[j].key) /\ TierRank(dev_status[j].status) <= 4

\* C10: next_actionable_story returns the first story key, in iteration order, of the
\* highest non-empty tier in-progress > review > ready-for-dev > backlog, with that
\* status, and None exactly when no story key has one of the four statuses.
C10_NextActionable ==
    pc = "nas_done" =>
       /\ result = <<>> <=> ~\E j \in 1..Len(dev_status) : Actionable(j)
       /\ result # <<>> =>
             \E j \in 1..Len(dev_status) :
                /\ Actionable(j)
                /\ result = <<dev_status[j].key, dev_status[j].status>>
                /\ \A k \in 1..Len(dev_status) :
                      Actionable(k) =>
                         \/ TierRank(dev_status[k].status) > TierRank(dev_status[j].status)
                         \/ (TierRank(dev_status[k].status) = TierRank(dev_status[j].status)
                               /\ k >= j)

C10_Witness ==
    /\ pc = "nas_done"
    /\ Len(dev_status) = 3
    /\ dev_status[1] = [key |-> EpicKey, status |-> "in-progress"]
    /\ dev_status[2] = [key |-> Key11, status |-> "backlog"]
    /\ dev_status[3] = [key |-> Key123, status |-> "review"]
    /\ result = <<Key123, "review">>

\* ---------------------------------------------------------------- resume

\* the phase the status alone selects
PhaseOfStatus(st) ==
    CASE st \in {"in-progress", "ready-for-dev"} -> "DS"
      [] st = "review" -> "CR"
      [] OTHER -> "CS"

PcOfPhase(kind) == CASE kind = "CS" -> "cs" [] kind = "DS" -> "ds" [] OTHER -> "cr"

\* a unit is selected and none of its sessions has run yet
AboutToLaunch == result # <<>> /\ steps = <<>> /\ pc \in {"cs", "ds", "cr"}

\* a unit is selected and at least one of its sessions has run
Launched == result # <<>> /\ steps # <<>>

\* C11 as stated: the first phase launched for a selected unit is the one its status
\* at selection time selects: Develop for in-progress and ready-for-dev, Review for
\* review, Create for backlog.
C11_FirstPhaseByStatusAlone ==
    /\ AboutToLaunch => pc = PcOfPhase(PhaseOfStatus(story_status))
    /\ Launched => steps[1] = PhaseOfStatus(story_status)

\* C11 amended: when the unit's detail file exists, or its status is backlog, the
\* first phase launched is the one its status at selection time selects, so a unit in
\* review gets no Create and no Develop before its first Review.
C11_FirstPhaseByStatus ==
    (result # <<>> /\ (story_file_exists \/ story_status = "backlog")) =>
       /\ AboutToLaunch => pc = PcOfPhase(PhaseOfStatus(story_status))
       /\ Launched => steps[1] = PhaseOfStatus(story_status)

C11_Witness ==
    /\ Launched
    /\ story_status = "review"
    /\ story_file_exists
    /\ steps = <<"CR", "DS", "CR">>

\* C12: when the status selects Develop or Review and the unit's detail file does not
\* exist, the resume phase is Create and Create is the first session launched.
C12_MissingFileFallsBackToCreate ==
    (result # <<>> /\ PhaseOfStatus(story_status) \in {"DS", "CR"} /\ ~story_file_exists) =>
       /\ resume_step = "CS"
       /\ (~config.dry_run /\ steps = <<>>) => pc = "cs"
       /\ steps # <<>> => steps[1] = "CS"

C12_Witness ==
    /\ result # <<>>
    /\ story_status = "review"
    /\ ~story_file_exists
    /\ resume_step = "CS"
    /\ steps = <<"CS">>

\* -------------------------------------------------------------- recovery

\* the done story keys of the status document that have no commit in the history
UncommittedDone ==
    {dev_status[j].key : j \in {n \in 1..Len(dev_status) :
                                   /\ StoryShape(dev_status[n].key)
                                   /\ dev_status[n].status = "done"
                                   /\ ~check_story_committed(git_log, dev_status[n].key)}}

MoreRecent(a, b) == PairGreater(SortKey(a), SortKey(b))

\* C13: the recovery pass runs a commit if and only if the working tree is dirty and
\* some done unit has no commit in the history; then it runs exactly one, for the
\* unit with the highest (group, index) among them; a recovery commit happens only in
\* the recovery pass, before any session of the main loop.
C13_RecoveryCommit ==
    [][/\ recovered' # recovered =>
             pc = "recovering" /\ steps = <<>> /\ launch_timeout = 0 /\ story_count = 0
       /\ pc = "recovering" =>
             IF git_dirty /\ UncommittedDone # {}
             THEN \E k \in UncommittedDone :
                     /\ recovered' = <<k>>
                     /\ \A o \in UncommittedDone : ~MoreRecent(o, k)
             ELSE recovered' = recovered]_vars

C13_Witness ==
    /\ pc = "select"
    /\ i = 1
    /\ steps = <<>>
    /\ recovered = <<Key12>>
    /\ get_story_status(dev_status, Key11) = "done"
    /\ ~check_story_committed(git_log, Key11)

\* ------------------------------------------------------------ hardening

\* C14 as stated: with a verification command configured, Review runs in a round only
\* when the command succeeded after that round's Develop; with a command that always
\* fails Review never runs and the unit is not committed.
C14_TestGate ==
    config.test_cmd = "false" => Count(steps, "CR") = 0 /\ Count(steps, "COMMIT") = 0

\* C16 as stated: every Create, Develop and Review session is launched with the
\* configuration's session_timeout_minutes.
C16_TimeoutPassed ==
    launch_timeout # 0 => launch_timeout = config.session_timeout_minutes

\* C15 as stated: a status read whose first attempt fails to parse is attempted once
\* more and the error reaches the caller only when the second attempt fails too; no
\* read is attempted more than twice.
C15_ReadRetried ==
    read_state # "pending" =>
       /\ read_attempts <= 2
       /\ read_state = "raised" => read_attempts = 2

\* ------------------------------------------------------ session results

ClaudeReturned == s_call = "claude" /\ s_pc = "returned"

\* the marker tags of the logged lines, in order
RECURSIVE LoggedMarkers(_)
LoggedMarkers(lines) ==
    IF lines = <<>> THEN <<>>
    ELSE LoggedMarkers(SubSeq(lines, 1, Len(lines) - 1)) \o
         (CASE lines[Len(lines)] = HaltLine -> <<"HALT">>
            [] lines[Len(lines)] = CompleteLine -> <<"DEV_STORY_COMPLETE">>
            [] OTHER -> <<>>)

\* positions of the result lines in the log
ResultLines == {n \in 1..Len(log_lines) : log_lines[n] \in {ResultOkLine, ResultErrLine}}

LastResultLine == log_lines[CHOOSE n \in ResultLines : \A m \in ResultLines : m <= n]

\* the signals the timeout handling sent
TimeoutSignals == SelectSeq(signals, LAMBDA s : s \in {"terminate", "kill"})

\* C17: when run_claude_session completes without a timeout, success is (exit code 0
\* and the last result line read reports no error) if a result line was read, and
\* (exit code 0) if none was.
C17_SuccessFlag ==
    (ClaudeReturned /\ ~timed_out) =>
       /\ exit_code = returncode
       /\ s_result.success =
             IF ResultLines # {}
             THEN exit_code = 0 /\ LastResultLine = ResultOkLine
             ELSE exit_code = 0

C17_Witness ==
    /\ ClaudeReturned
    /\ ~timed_out
    /\ log_lines = <<ResultErrLine, ResultOkLine>>
    /\ exit_code = 1
    /\ ~s_result.success

\* C18: a timed-out run_claude_session returns success false, also when a result
\* line without error was read, a duration of timeout_minutes in milliseconds, and
\* the markers and the turn count of exactly the lines read before the cutoff.
C18_TimeoutResult ==
    (ClaudeReturned /\ timed_out) =>
       /\ ~s_result.success
       /\ s_result.duration_ms = timeout_minutes * 60000
       /\ s_result.markers_detected = LoggedMarkers(log_lines)
       /\ s_result.num_turns =
             IF ResultLines = {} THEN 0
             ELSE IF LastResultLine = ResultOkLine THEN 3 ELSE 7

C18_Witness ==
    /\ ClaudeReturned
    /\ timed_out
    /\ log_lines = <<HaltLine, ResultOkLine>>
    /\ stream = <<CompleteLine>>
    /\ exit_code = -1
    /\ s_result.markers_detected = <<"HALT">>
    /\ s_result.num_turns = 3

\* C19: on a timeout terminate is sent first; kill is sent only after it, while the
\* subprocess is still running when the grace window ends; and the subprocess has
\* exited when run_claude_session returns.
C19_TerminateThenKill ==
    [][/\ signals' # signals /\ signals'[Len(signals')] = "kill" =>
             /\ proc = "running"
             /\ s_pc = "terminating"
             /\ TimeoutSignals = <<"terminate">>
       /\ timed_out' /\ ~timed_out => TimeoutSignals' = <<"terminate">>
       /\ (s_call' = "claude" /\ s_pc' = "returned" /\ timed_out') =>
             /\ proc' = "exited"
             /\ TimeoutSignals' \in {<<"terminate">>, <<"terminate", "kill">>}]_vars

C19_Witness ==
    /\ ClaudeReturned
    /\ timed_out
    /\ TimeoutSignals = <<"terminate", "kill">>
    /\ returncode = -9
    /\ proc = "exited"

\* C20 as stated: while a subprocess started by the session supervisor is running
\* the handle refers to it, and once the call has ended, by return or by exception,
\* the handle is empty.
C20_HandleTracksSubprocess ==
    /\ proc = "running" => active_process = "proc"
    /\ s_pc \in {"returned", "raised"} => active_process = "None"

\* ------------------------------------------------ session flag and order

\* a claude subprocess of the call is being supervised
SessionInProgress ==
    \/ s_call = "claude" /\ s_pc \in {"streaming", "waiting", "terminating", "killing"}
    \/ s_call = "commit" /\ s_pc = "c_gen"

\* C21: the session-active flag is true while a session call supervises its claude
\* subprocess and false otherwise: before the call, and after it ended by return,
\* timeout or an exception raised while streaming.
C21_SessionActiveFlag == session_active <=> SessionInProgress

C21_Witness ==
    /\ s_call = "claude"
    /\ s_pc = "raised"
    /\ proc = "running"
    /\ Len(log_lines) = 2
    /\ ~session_active

\* parse_line on each line a session may print, tabulated
ParsedKinds == [line \in LineKinds |-> parse_line(line)]

RECURSIVE ParseAll(_)
ParseAll(lines) ==
    IF lines = <<>> THEN <<>>
    ELSE ParseAll(SubSeq(lines, 1, Len(lines) - 1)) \o ParsedKinds[lines[Len(lines)]]

IsPrefix(a, b) == Len(a) <= Len(b) /\ SubSeq(b, 1, Len(a)) = a

\* the events delivered from the stream: all but the timeout notice
StreamDelivered ==
    IF timed_out THEN SubSeq(delivered, 1, Len(delivered) - 1) ELSE delivered

\* C22: a line is written to the log before any of its events is delivered, every
\* event of a line is delivered in parse order before the next line is read, so the
\* delivered events are a prefix of the parse of the log and the log is at most one
\* line ahead of them.
C22_LogBeforeDispatch ==
    [][s_call' = "claude" =>
          /\ IsPrefix(StreamDelivered', ParseAll(log_lines'))
          /\ log_lines' # <<>> =>
                IsPrefix(ParseAll(SubSeq(log_lines', 1, Len(log_lines') - 1)), StreamDelivered')
          /\ log_lines' # log_lines =>
                /\ StreamDelivered = ParseAll(log_lines)
                /\ log_lines' = Append(log_lines, Head(stream))
                /\ delivered' = delivered]_vars

C22_Witness ==
    /\ s_call = "claude"
    /\ s_pc = "streaming"
    /\ log_lines = <<HaltLine, CompleteLine>>
    /\ delivered = parse_line(HaltLine) \o <<parse_line(CompleteLine)[1]>>
    /\ pending = <<MarkerEvent("DEV_STORY_COMPLETE")>>

\* C26 as stated: no failure of a git subprocess leaves run_commit_session as an
\* exception; the call ends with a result.
C26_GitFailuresNotFatal == s_call = "commit" => s_pc # "raised"

\* C27: run_commit_session starts git add, then the message generation, then git
\* commit; the commit is started after every outcome of the generation, with the
\* fallback message unless the generation exited 0 with output; success is (git
\* commit exited 0).
C27_CommitSession ==
    [][s_call' = "commit" =>
          /\ \/ IsPrefix(launched', <<"git add", "claude", "git commit">>)
             \/ launched' = <<"git add", "git commit">>
          /\ (s_pc = "c_gen" /\ s_pc' # s_pc) =>
                /\ s_pc' = "c_commit"
                /\ launched' = <<"git add", "claude", "git commit">>
                /\ commit_msg' \in {"generated", "fallback"}
                /\ commit_msg' = "generated" => returncode = 0 /\ stdout # ""
          /\ (s_pc = "c_add" /\ s_pc' = "c_commit") => commit_msg' = "fallback"
          /\ s_pc' = "returned" =>
                /\ launched'[Len(launched')] = "git commit"
                /\ s_result'.success = (returncode' = 0)]_vars

C27_Witness ==
    /\ s_call = "commit"
    /\ s_pc = "returned"
    /\ launched = <<"git add", "claude", "git commit">>
    /\ stdout = ""
    /\ commit_msg = "fallback"
    /\ s_result.success

\* ------------------------------------------------ run boundaries

\* some session was started in this run: a phase session or a commit session
AnySessionStarted == launch_timeout # 0 \/ recovered # <<>> \/ counted # <<>>

\* C23 as stated: in a dry run no session is started, and every iteration that selects
\* a unit reports the phase it would resume at and adds one to the tally.
C23_DryRunLaunchesNothing ==
    config.dry_run =>
       /\ ~AnySessionStarted /\ steps = <<>>
       /\ story_count = i - 1
       /\ (pc = "select" /\ i > 1) => last_notice = Notice("dry-run", 0, resume_step)

\* C24: a failed preflight check ends the run with an error notice and the value 0:
\* no session, no recovery commit, no loop iteration.
C24_PreflightFailure ==
    ((~claude_found \/ ~files_found) /\ pc # "start") =>
       /\ pc = "returned"
       /\ return_value = 0
       /\ last_notice.kind = "error"
       /\ ~AnySessionStarted /\ steps = <<>>
       /\ ~git_dirty
       /\ i = 1 /\ result = <<>> /\ story_count = 0

C24_Witness ==
    /\ pc = "returned"
    /\ ~claude_found /\ files_found
    /\ UncommittedDone # {}
    /\ return_value = 0

\* C25 as stated: a unit whose commit session failed, or whose commit is not found in
\* the history afterwards, is not added to the tally, and the loop goes on.
C25_FailedCommitNotCounted ==
    (LastStep = "COMMIT"
       /\ (~last_result.success \/ ~check_story_committed(git_log, story_key))) =>
       /\ story_count < i - 1
       /\ pc = "select" \/ (i > config.max_stories /\ Ended)

\* C28: a run that passed preflight emits the summary exactly once, as its last
\* notice, and the count it states is the value returned.
C28_OneSummary ==
    /\ summaries <= 1
    /\ summaries = 1 <=> (pc = "returned" /\ PreflightPasses(claude_found, files_found))
    /\ summaries = 1 => last_notice = Notice("summary", return_value, "")

C28_Witness ==
    /\ pc = "returned"
    /\ last_result.kind = "DS" /\ LastHalted
    /\ counted # <<>>
    /\ summaries = 1
    /\ return_value = 1

\* the loop head of an iteration that finds no actionable unit
NoneActionableAtSelect ==
    /\ pc = "select"
    /\ i <= config.max_stories
    /\ \A j \in 1..Len(dev_status) : ~Actionable(j)

\* C29: an iteration that finds no actionable unit ends the run: no session is
\* started in it or after it, and the tally so far is returned.
C29_NoActionableEndsRun ==
    [][/\ NoneActionableAtSelect =>
             /\ pc' = "summary" /\ result' = <<>>
             /\ UNCHANGED <<steps, launch_timeout, recovered, counted, story_count>>
       /\ (pc = "summary" /\ result = <<>>) =>
             /\ pc' = "returned" /\ return_value' = story_count
             /\ UNCHANGED <<steps, launch_timeout, recovered, counted, story_count>>]_vars

C29_Witness ==
    /\ pc = "returned"
    /\ result = <<>>
    /\ i <= config.max_stories
    /\ Len(counted) = 1
    /\ return_value = 1

\* C30: a Review session is started with the story path as extra prompt; so is a
\* Develop session of a unit resumed at Develop or Review, or of a round after the
\* first.
C30_ExtraPrompt ==
    /\ (LastStep = "CR" /\ last_result.kind = "CR") => launch_extra = "STORY_PATH"
    /\ (LastStep = "DS" /\ last_result.kind = "DS"
          /\ (resume_step \in {"DS", "CR"} \/ Count(steps, "DS") > 1))
          => launch_extra = "STORY_PATH"

C30_Witness ==
    /\ steps = <<"DS">>
    /\ last_result.kind = "DS"
    /\ story_status = "ready-for-dev"
    /\ resume_step = "DS"
    /\ launch_extra = "STORY_PATH"

\* ------------------------------------------------ parse_line

\* the line parse_line was applied to
ParsedLine == stream[1]

\* the line decodes to a record
IsRecord(raw) == raw.form = "json" /\ raw.data.t = "dict"

RecordTypes == {"system", "assistant", "user", "result", "rate_limit_event"}

HasType(raw, name) == IsRecord(raw) /\ IsName(Get(raw.data.v, "type", JNull), name)

\* C31 as stated: parse_line raises for no input and returns at least one event; a
\* blank line, a line that is not JSON, JSON that is no record and a record of an
\* unknown type yield exactly one unknown event.
C31_NeverRaises ==
    s_call = "parse" =>
       /\ s_pc # "raised"
       /\ s_pc = "returned" =>
             /\ pending # <<>>
             /\ (~IsRecord(ParsedLine) \/ \A n \in RecordTypes : ~HasType(ParsedLine, n))
                   => pending = <<UnknownEvent>>

\* the content blocks of an assistant record with a list of blocks, else none
BlocksOf(raw) ==
    IF /\ HasType(raw, "assistant")
       /\ Get(raw.data.v, "message", JNull).t = "dict"
       /\ Get(Get(raw.data.v, "message", JNull).v, "content", JNull).t = "list"
    THEN Get(Get(raw.data.v, "message", JNull).v, "content", JNull).v
    ELSE <<>>

\* a text block with a str as text
IsTextBlock(block) ==
    /\ block.t = "dict"
    /\ IsName(Get(block.v, "type", JNull), "text")
    /\ Get(block.v, "text", JNull).t = "str"

\* the opening tags of a text that start an occurrence of a paired marker
Candidates(text) ==
    {a \in 1..Len(text) :
        /\ text[a].k = "open" /\ text[a].n \in PairedTags
        /\ \E q \in (a + 1)..Len(text) : text[q] = Close(text[a].n)}

\* the end of the occurrence that starts at a: the nearest closing tag of its name
EndOf(text, a) ==
    CHOOSE q \in (a + 1)..Len(text) :
       /\ text[q] = Close(text[a].n)
       /\ \A r \in (a + 1)..(q - 1) : text[r] # Close(text[a].n)

\* the occurrences a left-to-right scan reports: disjoint, and every candidate lies in one
Occurrences(text) ==
    CHOOSE S \in SUBSET Candidates(text) :
       /\ \A a \in S, b \in S : a < b => EndOf(text, a) < b
       /\ \A c \in Candidates(text) : \E a \in S : a <= c /\ c <= EndOf(text, a)

\* the marker events among events whose type is in tags
MarkersIn(events, tags) ==
    SelectSeq(events, LAMBDA e : e.type = "marker" /\ e.marker \in tags)

TagOf(text, m) ==
    \E a \in 1..Len(text) : text[a] = Open(m) \/ text[a] = SelfClosing(m)

\* C39: every marker event parse_line returns comes from a tag in a text block of an
\* assistant record; a thinking block, a user record, a tool result and a line that
\* is no record yield none.
C39_MarkersFromAssistantText ==
    (s_call = "parse" /\ s_pc = "returned") =>
       \A k \in 1..Len(pending) :
          pending[k].type = "marker" =>
             \E b \in 1..Len(BlocksOf(ParsedLine)) :
                /\ IsTextBlock(BlocksOf(ParsedLine)[b])
                /\ TagOf(BlocksOf(ParsedLine)[b].v.text.v, pending[k].marker)

C39_Witness ==
    /\ s_call = "parse"
    /\ s_pc = "returned"
    /\ ParsedLine = UserLine(<<TextBlock(HaltText), ToolResultBlock(JStr(HaltText))>>)
    /\ pending = <<TextEventOf(JStr(HaltText), FALSE), ToolResultEvent>>

\* ------------------------------------------------ what a session result carries

\* the marker types of the events parsed from the logged lines, in stream order
ParsedMarkers ==
    LET ms == MarkersIn(ParseAll(log_lines), PairedTags \cup SelfTags)
    IN  [k \in 1..Len(ms) |-> ms[k].marker]

\* the result events parsed from the logged lines
ParsedResults == SelectSeq(ParseAll(log_lines), LAMBDA e : e.type = "result")

\* turn count and cost of the most recent result event read, 0 and absent with none
FromLastResult ==
    /\ s_result.markers_detected = ParsedMarkers
    /\ s_result.num_turns =
          IF ParsedResults = <<>> THEN 0 ELSE ParsedResults[Len(ParsedResults)].num_turns
    /\ s_result.has_cost =
          (ParsedResults # <<>> /\ ParsedResults[Len(ParsedResults)].has_cost)

\* C34 as stated: the result of run_claude_session carries the markers parsed from the
\* lines read, in order, and the turn count, duration and cost of the most recent
\* result event read.
C34_ResultFromStreamAlways ==
    ClaudeReturned =>
       /\ FromLastResult
       /\ ParsedResults # <<>> =>
             s_result.duration_ms = ParsedResults[Len(ParsedResults)].duration_ms

\* C34: the result of run_claude_session carries the markers parsed from the lines
\* read, in order, and the turn count and cost of the most recent result event read;
\* its duration is that event's (0 with none) unless the session timed out, when it is
\* the timeout.
C34_ResultFromStream ==
    ClaudeReturned =>
       /\ FromLastResult
       /\ s_result.duration_ms =
             IF timed_out THEN timeout_minutes * 60000
             ELSE IF ParsedResults = <<>> THEN 0
             ELSE ParsedResults[Len(ParsedResults)].duration_ms

C34_Witness ==
    /\ ClaudeReturned
    /\ timed_out
    /\ log_lines = <<HaltLine, ResultOkLine, ResultErrLine>>
    /\ s_result.markers_detected = <<"HALT">>
    /\ s_result.num_turns = 7
    /\ ~s_result.has_cost
    /\ s_result.duration_ms = timeout_minutes * 60000

\* ------------------------------------------------ the interrupt handler

\* C40: cleanup_subprocess sends terminate to the registered subprocess when one is
\* registered and has not exited, and nothing otherwise; it changes neither the
\* handle, the session-active flag, the tally nor the position of the session or of
\* the loop.
C40_CleanupFrame ==
    [][interrupts' # interrupts =>
          /\ signals' = IF active_process # "None" /\ proc = "running"
                        THEN Append(signals, "cleanup_terminate")
                        ELSE signals
          /\ UNCHANGED <<active_process, session_active, proc, s_pc, s_call, s_result,
                         timed_out, story_count, pc, i>>]_vars

C40_Witness ==
    /\ interrupts = 1
    /\ active_process # "None"
    /\ proc = "exited"
    /\ signals = <<>>
    /\ s_pc = "waiting"

\* ------------------------------------------------ one subprocess at a time

\* C32: at most one subprocess the runner started is running at any time, and a
\* session call is entered only when no subprocess of an earlier call is running
C32_OneSubprocess ==
    /\ live <= 1
    /\ s_pc = "start" => live = 0
    /\ s_pc = "returned" => live = 0
    /\ live = 1 <=> proc = "running"

C32_Witness ==
    /\ calls = MaxCalls
    /\ s_pc \in {"streaming", "c_gen"}
    /\ proc = "running"
    /\ live = 1

\* ------------------------------------------------ termination

\* sessions of one iteration at most: Create, the rounds of Develop and Review, Commit
PerIteration == 2 + 2 * config.max_review_rounds

\* sessions the current iteration may still launch, by position
LeftInIteration ==
    CASE pc = "cs" -> PerIteration
      [] pc = "ds" -> 2 * (config.max_review_rounds - round_num + 1) + 1
      [] pc = "cr" -> 2 * (config.max_review_rounds - round_num) + 2
      [] pc = "commit" -> 1
      [] OTHER -> 0

\* sessions the run may still launch
Budget ==
    CASE pc \in {"start", "recovery", "recovering"} -> 1 + config.max_stories * PerIteration
      [] pc = "select" -> (config.max_stories + 1 - i) * PerIteration
      [] pc \in {"cs", "ds", "cr", "commit"} ->
            (config.max_stories - i) * PerIteration + LeftInIteration
      [] OTHER -> 0

PcRank ==
    CASE pc = "start" -> 6 [] pc = "recovery" -> 5 [] pc = "recovering" -> 4
      [] pc = "select" -> 3 [] pc \in {"cs", "ds", "cr", "commit"} -> 2
      [] pc = "summary" -> 1 [] OTHER -> 0

Measure == 7 * Budget + PcRank

SessionLaunched == Len(steps') = Len(steps) + 1 \/ recovered' # recovered

\* C35: every step of run_stories lowers a natural-number measure, so the run ends;
\* the loop starts at most max_stories iterations, each with at most one Create, at most
\* max_review_rounds Develop and max_review_rounds Review sessions and at most one
\* Commit, and every session launched takes one from a budget that starts at
\* max_stories * (2 + 2 * max_review_rounds) + 1, the one being the recovery commit.
C35_Terminates ==
    /\ [](/\ i <= config.max_stories + 1
          /\ pc \in {"cs", "ds", "cr", "commit"} => i <= config.max_stories
          /\ Count(steps, "CS") <= 1
          /\ Count(steps, "DS") <= config.max_review_rounds
          /\ Count(steps, "CR") <= config.max_review_rounds
          /\ Count(steps, "COMMIT") <= 1
          /\ Len(recovered) <= 1
          /\ Budget >= 0
          /\ pc = "start" => Budget = config.max_stories * PerIteration + 1)
    /\ [][/\ Measure' < Measure
          /\ SessionLaunched => Budget' < Budget]_vars

C35_Witness ==
    /\ pc = "returned"
    /\ config.max_stories = MaxStories
    /\ config.max_review_rounds = MaxRounds
    /\ story_count = MaxStories
    /\ Len(steps) = PerIteration

\* ------------------------------------------------ a unit that stops ends the run

\* the selected unit's iteration ended short of Commit
UnitStopped == Ended /\ steps # <<>> /\ LastStep # "COMMIT"

\* C36: a unit whose Create failed or left a status other than ready-for-dev, whose
\* Develop failed or halted, or whose last allowed Review did not leave it done, ends
\* the run: from then on no session is launched, for this or another unit, the status
\* store and the tally stay as they are, and the only step left emits the summary.
C36_StopEndsRun ==
    /\ [](/\ (LastStep = "CS" /\ (~last_result.success \/ CurStatus # "ready-for-dev"))
                => UnitStopped
          /\ (LastStep = "DS" /\ (~last_result.success \/ LastHalted)) => UnitStopped
          /\ (/\ LastStep = "CR"
              /\ CurStatus # "done"
              /\ Count(steps, "CR") >= config.max_review_rounds) => UnitStopped)
    /\ [][UnitStopped =>
             /\ pc = "summary"
             /\ pc' = "returned"
             /\ last_notice' = Notice("summary", story_count, "")
             /\ return_value' = story_count
             /\ UNCHANGED <<steps, recovered, counted, launch_timeout, launch_extra,
                            dev_status, git_log, result, i, story_count, last_result>>]_vars

C36_Witness ==
    /\ pc = "returned"
    /\ i = 2
    /\ story_count = 1
    /\ LastStep = "CR"
    /\ CurStatus # "done"
    /\ config.max_review_rounds = MaxRounds
    /\ Count(steps, "CR") = MaxRounds
    /\ last_notice = Notice("summary", 1, "")

\* ------------------------------------------------ dry run

\* C37: in a dry run the status store never changes and an iteration selects the unit
\* the iteration before it selected; a dry run that entered the loop returns
\* max_stories when some unit is actionable and 0 when none is.
C37_DryRunCount ==
    /\ []((config.dry_run /\ pc = "returned" /\ PreflightPasses(claude_found, files_found))
            => return_value = IF \E j \in 1..Len(dev_status) : Actionable(j)
                              THEN config.max_stories
                              ELSE 0)
    /\ [][config.dry_run =>
             /\ dev_status' = dev_status
             /\ (result # <<>> /\ pc = "select" /\ i <= config.max_stories)
                   => (result' = result /\ i' = i + 1)]_vars

C37_Witness ==
    /\ config.dry_run
    /\ pc = "returned"
    /\ config.max_stories = MaxStories
    /\ return_value = MaxStories
    /\ result # <<>>
    /\ i = MaxStories + 1
    /\ steps = <<>>

\* ------------------------------------------------ the completed count

\* C38: the completed count never decreases and goes up by one at most, and only in
\* a step that ends a loop iteration; it never exceeds max_stories nor the number of
\* iterations ended; the steps of the pre-loop recovery leave it at 0.
C38_CountMonotone ==
    /\ [](/\ story_count <= config.max_stories
          /\ story_count <= i - 1
          /\ pc \in {"start", "recovery", "recovering"} => story_count = 0)
    /\ [][/\ story_count' \in {story_count, story_count + 1}
          /\ story_count' # story_count => i' = i + 1
          /\ pc \in {"recovery", "recovering"} => story_count' = story_count]_vars

C38_Witness ==
    /\ pc = "returned"
    /\ Len(recovered) = 1
    /\ story_count = 1
    /\ i = 2
    /\ config.max_stories = MaxStories
    /\ LastStep = "COMMIT"

====
